---- MODULE Spec2Model ----
(***************************************************************************)
(* A model of the chalupy-mcp scraper core (src/src/scraper.ts): parameter *)
(* validation, the URL safety gate, the TTL cache, fetchWithRetry and the  *)
(* four public operations searchChalupy, getPropertyDetails, listRegions   *)
(* and listFeatures.                                                       *)
(*                                                                         *)
(* Strings are sequences of characters, so that patterns, prefixes,       *)
(* lengths and URL parsing are computed character by character. A         *)
(* character is a one-character string, or "U+hhhh" for a code point       *)
(* beyond ASCII ("U+00FD" is y with acute).                                *)
(* Numbers are records: k is "fin", "nan", "inf" or "ninf", and for a      *)
(* finite number h is twice its value (so 5 stands for 2.5).               *)
(***************************************************************************)
EXTENDS Integers, Sequences, FiniteSets, TLC

\* ------------------------------------------------------------ constants

BASE_URL == <<"h","t","t","p","s",":","/","/","w","w","w",".","e","-","c","h","a","l","u","p","y",".","c","z">>
ALLOWED_HOSTNAME == <<"w","w","w",".","e","-","c","h","a","l","u","p","y",".","c","z">>
CACHE_TTL_MS == 3600000
MaxSlugLength == 50
MaxResultsCeiling == 100
DefaultMaxResults == 10
DefaultRetries == 2

\* ------------------------------------------------------- string helpers

LowerAlpha == <<"a","b","c","d","e","f","g","h","i","j","k","l","m","n","o","p","q","r","s","t","u","v","w","x","y","z">>
UpperAlpha == <<"A","B","C","D","E","F","G","H","I","J","K","L","M","N","O","P","Q","R","S","T","U","V","W","X","Y","Z">>
Digits == <<"0","1","2","3","4","5","6","7","8","9">>

Range(s) == {s[i] : i \in DOMAIN s}

IsDigit(c) == c \in Range(Digits)
IsLower(c) == c \in Range(LowerAlpha)
IsUpper(c) == c \in Range(UpperAlpha)
IsAlpha(c) == IsLower(c) \/ IsUpper(c)

DigitVal(c) == (CHOOSE i \in DOMAIN Digits : Digits[i] = c) - 1

\* String.prototype.toLowerCase, one character
LowerChar(c) == IF IsUpper(c) THEN LowerAlpha[CHOOSE i \in DOMAIN UpperAlpha : UpperAlpha[i] = c] ELSE c
toLowerCase(s) == [i \in DOMAIN s |-> LowerChar(s[i])]

\* String.prototype.startsWith, and a /^literal/ pattern
startsWith(s, p) == Len(s) >= Len(p) /\ SubSeq(s, 1, Len(p)) = p

\* first position of a character of cs in s, 0 when there is none
IndexOfAny(s, cs) == IF \E i \in DOMAIN s : s[i] \in cs THEN CHOOSE i \in DOMAIN s : s[i] \in cs /\ \A j \in 1..(i-1) : s[j] \notin cs ELSE 0
\* last position of character c in s, 0 when there is none
LastIndexOf(s, c) == IF \E i \in DOMAIN s : s[i] = c THEN CHOOSE i \in DOMAIN s : s[i] = c /\ \A j \in (i+1)..Len(s) : s[j] # c ELSE 0

RECURSIVE IntToString(_)
IntToString(n) == IF n < 10 THEN <<Digits[n + 1]>> ELSE IntToString(n \div 10) \o <<Digits[(n % 10) + 1]>>

RECURSIVE Join(_, _)
\* Array.prototype.join
Join(parts, sep) == IF parts = <<>> THEN <<>> ELSE IF Len(parts) = 1 THEN parts[1] ELSE parts[1] \o sep \o Join(Tail(parts), sep)

\* ------------------------------------------------------------- numbers

Fin(h) == [k |-> "fin", h |-> h]
NaN == [k |-> "nan", h |-> 0]
PosInfinity == [k |-> "inf", h |-> 0]
NegInfinity == [k |-> "ninf", h |-> 0]

\* Number.isFinite
NumberIsFinite(v) == v.k = "fin"
\* value < bound, for an integer bound; NaN compares false with everything
NumLess(v, bound) == \/ v.k = "ninf"
                     \/ v.k = "fin" /\ v.h < 2 * bound
\* value > bound, for an integer bound
NumGreater(v, bound) == \/ v.k = "inf"
                        \/ v.k = "fin" /\ v.h > 2 * bound
\* JavaScript truthiness of a number: 0 and NaN are falsy
NumTruthy(v) == ~(v.k = "nan" \/ (v.k = "fin" /\ v.h = 0))
\* String(number), for the finite multiples of one half
NumberToString(v) ==
    CASE v.k = "nan" -> <<"N","a","N">>
      [] v.k = "inf" -> <<"I","n","f","i","n","i","t","y">>
      [] v.k = "ninf" -> <<"-","I","n","f","i","n","i","t","y">>
      [] OTHER ->
           LET a == IF v.h < 0 THEN 0 - v.h ELSE v.h
               sign == IF v.h < 0 THEN <<"-">> ELSE <<>>
               frac == IF a % 2 = 1 THEN <<".","5">> ELSE <<>>
           IN sign \o IntToString(a \div 2) \o frac

\* ---------------------------------------------------------- validation
\* A validator yields <<>> when it returns normally and <<message>> when it throws.

SlugChars == Range(LowerAlpha) \cup Range(Digits) \cup {"-"}

\* VALID_SLUG_PATTERN.test(slug): /^[a-z0-9-]+$/
VALID_SLUG_PATTERN(slug) == Len(slug) >= 1 /\ \A i \in DOMAIN slug : slug[i] \in SlugChars

MsgInvalidSlug(type, slug) == <<"N","e","p","l","a","t","n","U+00FD"," ">> \o type \o <<":"," ">> \o slug
MsgSlugTooLong(type) == type \o <<" ","j","e"," ","p","U+0159","U+00ED","l","i","U+0161"," ","d","l","o","u","h","U+00FD">>

validateSlug(slug, type) ==
    IF ~VALID_SLUG_PATTERN(slug) THEN <<MsgInvalidSlug(type, slug)>>
    ELSE IF Len(slug) > MaxSlugLength THEN <<MsgSlugTooLong(type)>>
    ELSE <<>>

\* /^\d{4}-\d{2}-\d{2}$/
datePattern(date) ==
    /\ Len(date) = 10
    /\ \A i \in {1, 2, 3, 4, 6, 7, 9, 10} : IsDigit(date[i])
    /\ date[5] = "-" /\ date[8] = "-"

\* isNaN(new Date(date).getTime()) for a string that matches datePattern, as Node's
\* engine parses a date-only ISO string: the month must be 1..12 and the day 1..31,
\* whatever the month; a day past the month's end rolls over into the next month.
DateIsNaN(date) ==
    LET month == 10 * DigitVal(date[6]) + DigitVal(date[7])
        day == 10 * DigitVal(date[9]) + DigitVal(date[10])
    IN ~(month \in 1..12 /\ day \in 1..31)

MsgDateFormat(date) == <<"N","e","p","l","a","t","n","U+00FD"," ","f","o","r","m","U+00E1","t"," ","d","a","t","a",":"," ">> \o date
MsgDateInvalid(date) == <<"N","e","p","l","a","t","n","U+00E9"," ","d","a","t","u","m",":"," ">> \o date

validateDate(date) ==
    IF ~datePattern(date) THEN <<MsgDateFormat(date)>>
    ELSE IF DateIsNaN(date) THEN <<MsgDateInvalid(date)>>
    ELSE <<>>

MsgNotPositive(name) == name \o <<" ","m","u","s","U+00ED"," ","b","U+00FD","t"," ","k","l","a","d","n","U+00E9"," ","U+010D","U+00ED","s","l","o">>

\* mutant: the Number.isFinite test is forgotten
validatePositiveNumber_negativeOnly(value, name) ==
    IF NumLess(value, 0) THEN <<MsgNotPositive(name)>> ELSE <<>>

validatePositiveNumber(value, name) ==
    IF ~NumberIsFinite(value) \/ NumLess(value, 0) THEN <<MsgNotPositive(name)>> ELSE <<>>

\* ------------------------------------------------------------ URL gate

\* the leading decimal digits of a string, and the number a digit string denotes
RECURSIVE DigitsPrefix(_)
DigitsPrefix(s) == IF s # <<>> /\ IsDigit(Head(s)) THEN <<Head(s)>> \o DigitsPrefix(Tail(s)) ELSE <<>>
RECURSIVE DigitsValue(_, _)
DigitsValue(s, acc) == IF s = <<>> THEN acc ELSE DigitsValue(Tail(s), 10 * acc + DigitVal(Head(s)))

SpecialSchemes == {<<"h","t","t","p">>, <<"h","t","t","p","s">>, <<"f","t","p">>, <<"w","s">>, <<"w","s","s">>}
\* the code points a URL parser refuses in a host
ForbiddenHostChars == {" ", "#", "/", ":", "<", ">", "?", "@", "[", "\\", "]", "^", "|", "%"}
SchemeChar(c) == IsAlpha(c) \/ IsDigit(c) \/ c \in {"+", "-", "."}

RECURSIVE TrimLeft(_)
TrimLeft(s) == IF s # <<>> /\ Head(s) = " " THEN TrimLeft(Tail(s)) ELSE s
RECURSIVE TrimRight(_)
TrimRight(s) == IF s # <<>> /\ s[Len(s)] = " " THEN TrimRight(SubSeq(s, 1, Len(s) - 1)) ELSE s
RECURSIVE SkipSlashes(_)
SkipSlashes(s) == IF s # <<>> /\ Head(s) \in {"/", "\\"} THEN SkipSlashes(Tail(s)) ELSE s

UrlFailure == [ok |-> FALSE, protocol |-> <<>>, hostname |-> <<>>]

\* new URL(url) without a base: the scheme, then for a special scheme the authority
\* (credentials up to the last "@", the host up to the first ":", the port), with
\* scheme and host lower-cased. Only protocol and hostname are kept. Bracketed IPv6
\* hosts, numeric hosts and percent-escapes in a host are outside the inputs drawn.
ParseUrl(url) ==
    LET u == TrimRight(TrimLeft(url))
        colon == IndexOfAny(u, {":"})
    IN IF colon <= 1 \/ ~IsAlpha(u[1]) \/ (\E i \in 2..(colon - 1) : ~SchemeChar(u[i]))
       THEN UrlFailure
       ELSE LET scheme == toLowerCase(SubSeq(u, 1, colon - 1))
                rest == SubSeq(u, colon + 1, Len(u))
            IN IF scheme \in SpecialSchemes
               THEN LET body == SkipSlashes(rest)
                        stop == IndexOfAny(body, {"/", "\\", "?", "#"})
                        authority == IF stop = 0 THEN body ELSE SubSeq(body, 1, stop - 1)
                        at == LastIndexOf(authority, "@")
                        hostport == SubSeq(authority, at + 1, Len(authority))
                        pcolon == IndexOfAny(hostport, {":"})
                        host == IF pcolon = 0 THEN hostport ELSE SubSeq(hostport, 1, pcolon - 1)
                        port == IF pcolon = 0 THEN <<>> ELSE SubSeq(hostport, pcolon + 1, Len(hostport))
                    IN IF \/ host = <<>>
                          \/ \E i \in DOMAIN host : host[i] \in ForbiddenHostChars
                          \/ \E i \in DOMAIN port : ~IsDigit(port[i])
                          \/ DigitsValue(port, 0) > 65535
                       THEN UrlFailure
                       ELSE [ok |-> TRUE, protocol |-> scheme \o <<":">>, hostname |-> toLowerCase(host)]
               ELSE LET hasAuthority == Len(rest) >= 2 /\ rest[1] = "/" /\ rest[2] = "/"
                        body == IF hasAuthority THEN SubSeq(rest, 3, Len(rest)) ELSE <<>>
                        stop == IndexOfAny(body, {"/", "?", "#"})
                        authority == IF stop = 0 THEN body ELSE SubSeq(body, 1, stop - 1)
                        at == LastIndexOf(authority, "@")
                        hostport == SubSeq(authority, at + 1, Len(authority))
                        pcolon == IndexOfAny(hostport, {":"})
                        host == IF pcolon = 0 THEN hostport ELSE SubSeq(hostport, 1, pcolon - 1)
                    IN [ok |-> TRUE, protocol |-> scheme \o <<":">>, hostname |-> host]

MsgInvalidUrl == <<"N","e","p","l","a","t","n","U+00E1"," ","U","R","L"," ","a","d","r","e","s","a">>
MsgWrongDomain == <<"U","R","L"," ","m","u","s","U+00ED"," ","b","U+00FD","t"," ","z"," ","d","o","m","U+00E9","n","y"," ">> \o ALLOWED_HOSTNAME
MsgNotHttps == <<"U","R","L"," ","m","u","s","U+00ED"," ","p","o","u","U+017E","U+00ED","v","a","t"," ","H","T","T","P","S"," ","p","r","o","t","o","k","o","l">>
HttpsProtocol == <<"h","t","t","p","s",":">>

\* mutant: the protocol is not checked
validateUrl_anyProtocol(url) ==
    LET parsed == ParseUrl(url)
    IN IF ~parsed.ok THEN <<MsgInvalidUrl>>
       ELSE IF parsed.hostname # ALLOWED_HOSTNAME THEN <<MsgWrongDomain>>
       ELSE <<>>

\* mutant: the host is matched by prefix, not by equality
validateUrl_hostPrefix(url) ==
    LET parsed == ParseUrl(url)
    IN IF ~parsed.ok THEN <<MsgInvalidUrl>>
       ELSE IF ~startsWith(parsed.hostname, ALLOWED_HOSTNAME) THEN <<MsgWrongDomain>>
       ELSE IF parsed.protocol # HttpsProtocol THEN <<MsgNotHttps>>
       ELSE <<>>

validateUrl(url) ==
    LET parsed == ParseUrl(url)
    IN IF ~parsed.ok THEN <<MsgInvalidUrl>>
       ELSE IF parsed.hostname # ALLOWED_HOSTNAME THEN <<MsgWrongDomain>>
       ELSE IF parsed.protocol # HttpsProtocol THEN <<MsgNotHttps>>
       ELSE <<>>

\* encodeURIComponent: A-Z a-z 0-9 - _ . ! ~ * ' ( ) stay, every other character
\* becomes the percent-escapes of its UTF-8 bytes (tabled for the characters drawn)
UriUnreserved == Range(LowerAlpha) \cup Range(UpperAlpha) \cup Range(Digits) \cup {"-", "_", ".", "!", "~", "*", "'", "(", ")"}
PercentEscape(c) ==
    CASE c = " " -> <<"%","2","0">>
      [] c = "/" -> <<"%","2","F">>
      [] c = ":" -> <<"%","3","A">>
      [] c = "?" -> <<"%","3","F">>
      [] c = "@" -> <<"%","4","0">>
      [] c = "&" -> <<"%","2","6">>
      [] c = "=" -> <<"%","3","D">>
      [] c = "#" -> <<"%","2","3">>
      [] c = "+" -> <<"%","2","B">>
      [] c = "%" -> <<"%","2","5">>
      [] c = "\\" -> <<"%","5","C">>
RECURSIVE encodeURIComponent(_)
encodeURIComponent(s) ==
    IF s = <<>> THEN <<>>
    ELSE (IF Head(s) \in UriUnreserved THEN <<Head(s)>> ELSE PercentEscape(Head(s))) \o encodeURIComponent(Tail(s))

\* ------------------------------------------------------ searchChalupy
\* An optional parameter is <<>> when it is undefined and <<value>> when supplied.

Trim(s) == TrimRight(TrimLeft(s))
\* String.prototype.includes
Includes(s, q) == \E i \in 1..(Len(s) - Len(q) + 1) : SubSeq(s, i, i + Len(q) - 1) = q

StrRegion == <<"r","e","g","i","o","n">>
StrFeature == <<"f","e","a","t","u","r","e">>
StrPersons == <<"p","e","r","s","o","n","s">>
StrPriceMin == <<"p","r","i","c","e","M","i","n">>
StrPriceMax == <<"p","r","i","c","e","M","a","x">>
StrMaxResults == <<"m","a","x","R","e","s","u","l","t","s">>
MsgMaxResultsTooBig == <<"m","a","x","R","e","s","u","l","t","s"," ","n","e","m","U+016F","U+017E","e"," ","b","U+00FD","t"," ","v","U+011B","t","U+0161","U+00ED"," ","n","e","U+017E"," ","1","0","0">>

RECURSIVE ValidateEach(_, _)
\* for (const feature of params.features) validateSlug(feature, "feature")
ValidateEach(slugs, type) == IF slugs = <<>> THEN <<>> ELSE validateSlug(Head(slugs), type) \o ValidateEach(Tail(slugs), type)

\* The validation block of searchChalupy: the messages its checks would throw, in
\* the order of the checks; the first one is the error thrown.
SearchValidation(p) ==
    (IF p.region # <<>> /\ p.region[1] # <<>> THEN validateSlug(p.region[1], StrRegion) ELSE <<>>)
    \o (IF p.features # <<>> THEN ValidateEach(p.features[1], StrFeature) ELSE <<>>)
    \o (IF p.dateFrom # <<>> /\ p.dateFrom[1] # <<>> THEN validateDate(p.dateFrom[1]) ELSE <<>>)
    \o (IF p.dateTo # <<>> /\ p.dateTo[1] # <<>> THEN validateDate(p.dateTo[1]) ELSE <<>>)
    \o (IF p.persons # <<>> THEN validatePositiveNumber(p.persons[1], StrPersons) ELSE <<>>)
    \o (IF p.priceMin # <<>> THEN validatePositiveNumber(p.priceMin[1], StrPriceMin) ELSE <<>>)
    \o (IF p.priceMax # <<>> THEN validatePositiveNumber(p.priceMax[1], StrPriceMax) ELSE <<>>)
    \o (IF p.maxResults # <<>>
        THEN LET e == validatePositiveNumber(p.maxResults[1], StrMaxResults)
             IN IF e # <<>> THEN e
                ELSE IF NumGreater(p.maxResults[1], MaxResultsCeiling) THEN <<MsgMaxResultsTooBig>>
                ELSE <<>>
        ELSE <<>>)

DefaultSearchPath == <<"/","c","h","a","t","y","-","c","h","a","l","u","p","y">>

\* mutant: every feature becomes a path segment
searchPath_allFeatures(p) ==
    LET hasRegion == p.region # <<>> /\ p.region[1] # <<>>
        hasFeature == p.features # <<>> /\ Len(p.features[1]) > 0
        segments == Join([i \in DOMAIN p.features[1] |-> encodeURIComponent(p.features[1][i])], <<"/">>)
    IN IF hasRegion
       THEN <<"/">> \o encodeURIComponent(p.region[1]) \o (IF hasFeature THEN <<"/">> \o segments ELSE <<>>)
       ELSE IF hasFeature THEN <<"/">> \o segments
       ELSE DefaultSearchPath

searchPath(p) ==
    LET hasRegion == p.region # <<>> /\ p.region[1] # <<>>
        hasFeature == p.features # <<>> /\ Len(p.features[1]) > 0
    IN IF hasRegion
       THEN <<"/">> \o encodeURIComponent(p.region[1])
            \o (IF hasFeature THEN <<"/">> \o encodeURIComponent(p.features[1][1]) ELSE <<>>)
       ELSE IF hasFeature THEN <<"/">> \o encodeURIComponent(p.features[1][1])
       ELSE DefaultSearchPath

\* mutant: a number is pushed whenever it is defined, 0 included
queryParams_zeroKept(p) ==
    (IF p.persons # <<>>
     THEN << <<"o","s","o","b","y","=">> \o encodeURIComponent(NumberToString(p.persons[1])) >> ELSE <<>>)
    \o (IF p.dateFrom # <<>> /\ p.dateFrom[1] # <<>>
        THEN << <<"o","d","=">> \o encodeURIComponent(p.dateFrom[1]) >> ELSE <<>>)
    \o (IF p.dateTo # <<>> /\ p.dateTo[1] # <<>>
        THEN << <<"d","o","=">> \o encodeURIComponent(p.dateTo[1]) >> ELSE <<>>)
    \o (IF p.priceMin # <<>>
        THEN << <<"c","e","n","a","M","i","n","=">> \o encodeURIComponent(NumberToString(p.priceMin[1])) >> ELSE <<>>)
    \o (IF p.priceMax # <<>>
        THEN << <<"c","e","n","a","M","a","x","=">> \o encodeURIComponent(NumberToString(p.priceMax[1])) >> ELSE <<>>)

queryParams(p) ==
    (IF p.persons # <<>> /\ NumTruthy(p.persons[1])
     THEN << <<"o","s","o","b","y","=">> \o encodeURIComponent(NumberToString(p.persons[1])) >> ELSE <<>>)
    \o (IF p.dateFrom # <<>> /\ p.dateFrom[1] # <<>>
        THEN << <<"o","d","=">> \o encodeURIComponent(p.dateFrom[1]) >> ELSE <<>>)
    \o (IF p.dateTo # <<>> /\ p.dateTo[1] # <<>>
        THEN << <<"d","o","=">> \o encodeURIComponent(p.dateTo[1]) >> ELSE <<>>)
    \o (IF p.priceMin # <<>> /\ NumTruthy(p.priceMin[1])
        THEN << <<"c","e","n","a","M","i","n","=">> \o encodeURIComponent(NumberToString(p.priceMin[1])) >> ELSE <<>>)
    \o (IF p.priceMax # <<>> /\ NumTruthy(p.priceMax[1])
        THEN << <<"c","e","n","a","M","a","x","=">> \o encodeURIComponent(NumberToString(p.priceMax[1])) >> ELSE <<>>)

searchUrl(p) ==
    BASE_URL \o searchPath(p)
    \o (IF Len(queryParams(p)) > 0 THEN <<"?">> \o Join(queryParams(p), <<"&">>) ELSE <<>>)

PricePlaceholder == <<"C","e","n","a"," ","n","e","n","U+00ED"," ","u","v","e","d","e","n","a">>
LocationPlaceholder == <<"L","o","k","a","l","i","t","a"," ","n","e","n","U+00ED"," ","u","v","e","d","e","n","a">>
StrHttp == <<"h","t","t","p">>

\* const maxResults = params.maxResults || 10
effectiveMaxResults(p) == IF p.maxResults # <<>> /\ NumTruthy(p.maxResults[1]) THEN p.maxResults[1] ELSE Fin(2 * DefaultMaxResults)

\* mutant: the price and the location are copied as they are, without placeholders
listingOf_noPlaceholders(row) ==
    LET location == Trim(row.location)
        region == Trim(row.location2)
    IN [title |-> Trim(row.title),
        price |-> Trim(row.price),
        location |-> location \o (IF region # <<>> THEN <<" ","-"," ">> \o region ELSE <<>>),
        description |-> Trim(row.description),
        url |-> IF startsWith(row.link, StrHttp) THEN row.link ELSE BASE_URL \o row.link]

\* The record pushed for one .item.c-property row that has a title and a link.
\* A row carries the texts of its h3, .price, .location, .location2 and .desc
\* elements ("" for a missing element) and the href of its a.images-link (""
\* when missing); the thumbnail and the rating are copied the same way and left out.
listingOf(row) ==
    LET location == Trim(row.location)
        region == Trim(row.location2)
    IN [title |-> Trim(row.title),
        price |-> IF Trim(row.price) # <<>> THEN Trim(row.price) ELSE PricePlaceholder,
        location |-> IF location # <<>>
                     THEN location \o (IF region # <<>> THEN <<" ","-"," ">> \o region ELSE <<>>)
                     ELSE LocationPlaceholder,
        description |-> Trim(row.description),
        url |-> IF startsWith(row.link, StrHttp) THEN row.link ELSE BASE_URL \o row.link]

\* i >= maxResults, for an index i
IndexReaches(i, m) == CASE m.k = "fin" -> 2 * i >= m.h
                        [] m.k = "ninf" -> TRUE
                        [] OTHER -> FALSE

RECURSIVE collectListings(_, _, _)
\* $(".item.c-property").each((i, element) => ...): i is the row's 0-based position;
\* the loop ends at the first i >= maxResults; a row is pushed when title && link
collectListings(rows, i, maxResults) ==
    IF rows = <<>> \/ IndexReaches(i, maxResults) THEN <<>>
    ELSE (IF Trim(Head(rows).title) # <<>> /\ Head(rows).link # <<>> THEN <<listingOf(Head(rows))>> ELSE <<>>)
         \o collectListings(Tail(rows), i + 1, maxResults)

\* Array.prototype.filter
filterSeq(s, Test(_)) ==
    LET F[i \in 0..Len(s)] == IF i = 0 THEN <<>> ELSE F[i - 1] \o (IF Test(s[i]) THEN <<s[i]>> ELSE <<>>)
    IN F[Len(s)]

\* mutant: the query is compared as it was typed, not lower-cased
searchResults_queryAsTyped(p, rows) ==
    LET listings == collectListings(rows, 0, effectiveMaxResults(p))
    IN IF p.query # <<>> /\ p.query[1] # <<>> /\ Len(listings) > 0
       THEN LET Match(l) == \/ Includes(toLowerCase(l.title), p.query[1])
                            \/ Includes(toLowerCase(l.description), p.query[1])
                            \/ Includes(toLowerCase(l.location), p.query[1])
            IN filterSeq(listings, Match)
       ELSE listings

\* mutant: the query filter runs over every row of the page and the limit is applied
\* to what it leaves
searchResults_filterBeforeCap(p, rows) ==
    LET listings == collectListings(rows, 0, PosInfinity)
        m == effectiveMaxResults(p)
        cap == IF m.k = "fin" THEN (IF m.h < 0 THEN 0 ELSE (m.h + 1) \div 2) ELSE Len(listings)
        Capped(s) == SubSeq(s, 1, IF Len(s) < cap THEN Len(s) ELSE cap)
    IN IF p.query # <<>> /\ p.query[1] # <<>> /\ Len(listings) > 0
       THEN LET queryLower == toLowerCase(p.query[1])
                Match(l) == \/ Includes(toLowerCase(l.title), queryLower)
                            \/ Includes(toLowerCase(l.description), queryLower)
                            \/ Includes(toLowerCase(l.location), queryLower)
            IN Capped(filterSeq(listings, Match))
       ELSE Capped(listings)

\* what searchChalupy returns for a fetched page
searchResults(p, rows) ==
    LET listings == collectListings(rows, 0, effectiveMaxResults(p))
    IN IF p.query # <<>> /\ p.query[1] # <<>> /\ Len(listings) > 0
       THEN LET queryLower == toLowerCase(p.query[1])
                Match(l) == \/ Includes(toLowerCase(l.title), queryLower)
                            \/ Includes(toLowerCase(l.description), queryLower)
                            \/ Includes(toLowerCase(l.location), queryLower)
            IN filterSeq(listings, Match)
       ELSE listings

\* ------------------------------------------------- catalogs and details

czechRegions == <<
    <<"b","e","s","k","y","d","y">>,
    <<"c","e","s","k","e","-","s","t","r","e","d","o","h","o","r","i">>,
    <<"c","e","s","k","e","-","s","v","y","c","a","r","s","k","o">>,
    <<"c","e","s","k","y","-","r","a","j">>,
    <<"j","e","s","e","n","i","k","y">>,
    <<"j","i","z","e","r","s","k","e","-","h","o","r","y">>,
    <<"j","i","z","n","i","-","c","e","c","h","y">>,
    <<"j","i","z","n","i","-","m","o","r","a","v","a">>,
    <<"k","o","k","o","r","i","n","s","k","o">>,
    <<"k","r","k","o","n","o","s","e">>,
    <<"k","r","u","s","n","e","-","h","o","r","y">>,
    <<"l","u","z","i","c","k","e","-","h","o","r","y">>,
    <<"o","k","o","l","i","-","p","r","a","h","y">>,
    <<"o","r","l","i","c","k","e","-","h","o","r","y">>,
    <<"s","e","v","e","r","n","i","-","m","o","r","a","v","a","-","a","-","s","l","e","z","s","k","o">>,
    <<"s","t","r","e","d","n","i","-","c","e","c","h","y">>,
    <<"s","u","m","a","v","a">>,
    <<"v","y","c","h","o","d","n","i","-","c","e","c","h","y">>,
    <<"v","y","s","o","c","i","n","a">>,
    <<"z","a","p","a","d","n","i","-","c","e","c","h","y">>>>

featureSlugs == <<
    <<"b","a","z","e","n","-","v","e","n","k","o","v","n","i">>,
    <<"b","a","z","e","n","-","v","n","i","t","r","n","i">>,
    <<"s","e","-","s","a","u","n","o","u">>,
    <<"s","-","v","i","r","i","v","k","o","u">>,
    <<"s","-","k","r","b","e","m">>,
    <<"k","r","b","-","v","e","n","k","o","v","n","i">>,
    <<"s","-","k","o","u","p","a","c","i","m","-","s","u","d","e","m">>,
    <<"s","-","k","o","u","p","a","c","i","m","-","j","e","z","i","r","k","e","m">>,
    <<"d","e","t","s","k","a","-","p","o","s","t","y","l","k","a">>,
    <<"o","h","n","i","s","t","e">>,
    <<"t","e","r","a","s","a">>,
    <<"i","n","t","e","r","n","e","t">>,
    <<"s","p","o","l","e","c","e","n","s","k","a","-","m","i","s","t","n","o","s","t">>,
    <<"p","r","o","-","r","o","d","i","n","y","-","s","-","d","e","t","m","i">>,
    <<"o","p","l","o","c","e","n","y","-","p","o","z","e","m","e","k">>,
    <<"n","a","-","s","a","m","o","t","e">>,
    <<"z","a","h","r","a","d","a">>,
    <<"u","-","l","e","s","a">>,
    <<"s","e","-","p","s","e","m">>,
    <<"u","-","v","o","d","y">>,
    <<"p","r","o","-","r","y","b","a","r","e">>,
    <<"n","e","k","u","r","a","c","k","y">>,
    <<"b","e","z","b","a","r","i","e","r","o","v","y">>,
    <<"p","r","o","-","c","y","k","l","i","s","t","y">>,
    <<"u","-","s","j","e","z","d","o","v","k","y">>>>


\* parseInt(text) || 0: leading blanks, an optional sign, then the leading digits;
\* no digits gives NaN, which || turns into 0
parseIntOrZero(text) ==
    LET t == TrimLeft(text)
        neg == t # <<>> /\ Head(t) = "-"
        body == IF t # <<>> /\ Head(t) \in {"-", "+"} THEN Tail(t) ELSE t
        ds == DigitsPrefix(body)
    IN IF ds = <<>> THEN 0 ELSE IF neg THEN 0 - DigitsValue(ds, 0) ELSE DigitsValue(ds, 0)

RECURSIVE catalogOf_noDedup(_, _, _)
\* mutant: a slug that was kept before is pushed again
catalogOf_noDedup(anchors, allowed, kept) ==
    IF anchors = <<>> THEN kept
    ELSE LET a == Head(anchors)
             name == Trim(a.name)
             count == parseIntOrZero(Trim(a.countText))
             slug == IF a.href = <<>> THEN <<>> ELSE Tail(a.href)
             keep == /\ startsWith(a.href, <<"/">>)
                     /\ name # <<>>
                     /\ count > 0
                     /\ slug \in Range(allowed)
         IN catalogOf_noDedup(Tail(anchors), allowed,
                      IF keep THEN Append(kept, [slug |-> slug, name |-> name, count |-> count]) ELSE kept)

RECURSIVE catalogOf(_, _, _)
\* $('a[href^="/"]').each(...): an anchor is kept when it has a name and a positive
\* count and href.substring(1) is in the allow-list, unless its slug was kept before.
\* An anchor carries its href and the texts of its .t and .c elements.
catalogOf(anchors, allowed, kept) ==
    IF anchors = <<>> THEN kept
    ELSE LET a == Head(anchors)
             name == Trim(a.name)
             count == parseIntOrZero(Trim(a.countText))
             slug == IF a.href = <<>> THEN <<>> ELSE Tail(a.href)
             keep == /\ startsWith(a.href, <<"/">>)
                     /\ name # <<>>
                     /\ count > 0
                     /\ slug \in Range(allowed)
                     /\ ~\E i \in DOMAIN kept : kept[i].slug = slug
         IN catalogOf(Tail(anchors), allowed,
                      IF keep THEN Append(kept, [slug |-> slug, name |-> name, count |-> count]) ELSE kept)

Whitespace == {" "}
StrOsob == <<"o","s","o","b">>
StrLoznic == <<"l","o","U+017E","n","i","c">>

\* tag.match(/(\d+)\s+word/): <<>> when nothing matches, else <<parseInt(group 1)>>
\* of the leftmost match: a run of digits, one or more blanks, then the word
matchCount(tag, word) ==
    LET At(i) == /\ IsDigit(tag[i])
                 /\ LET ds == DigitsPrefix(SubSeq(tag, i, Len(tag)))
                        after == SubSeq(tag, i + Len(ds), Len(tag))
                        rest == TrimLeft(after)
                    IN /\ after # <<>> /\ Head(after) \in Whitespace
                       /\ startsWith(rest, word)
        hits == {i \in DOMAIN tag : At(i)}
    IN IF hits = {} THEN <<>>
       ELSE LET first == CHOOSE i \in hits : \A j \in hits : i <= j
            IN <<DigitsValue(DigitsPrefix(SubSeq(tag, first, Len(tag))), 0)>>

RECURSIVE scanTags(_, _, _)
\* the .tag.tag-sm loop: each matching tag assigns capacity (bedrooms)
scanTags(tags, word, current) ==
    IF tags = <<>> THEN current
    ELSE scanTags(Tail(tags), word, IF matchCount(Trim(Head(tags)), word) # <<>> THEN matchCount(Trim(Head(tags)), word) ELSE current)

DescriptionLimit == 200
Ellipsis == <<".", ".", ".">>
\* mutant: the ellipsis is appended from 200 characters on
shortDescription_ellipsisAtLimit(full) ==
    SubSeq(full, 1, IF Len(full) < DescriptionLimit THEN Len(full) ELSE DescriptionLimit)
    \o (IF Len(full) >= DescriptionLimit THEN Ellipsis ELSE <<>>)

\* fullDescription.substring(0, 200) + (fullDescription.length > 200 ? "..." : "")
shortDescription(full) ==
    SubSeq(full, 1, IF Len(full) < DescriptionLimit THEN Len(full) ELSE DescriptionLimit)
    \o (IF Len(full) > DescriptionLimit THEN Ellipsis ELSE <<>>)

\* what getPropertyDetails returns for a fetched page. A page carries the texts of
\* its .tag.tag-sm elements, of #vybaveni .desc and of the first .desc.default-style;
\* title, price, location, rating, equipment and image are copied texts and left out.
detailsOf(url, page) ==
    LET tags == [i \in DOMAIN page.tags |-> Trim(page.tags[i])]
        full == IF Trim(page.vybaveniDesc) # <<>> THEN Trim(page.vybaveniDesc) ELSE Trim(page.defaultDesc)
    IN [url |-> url,
        tags |-> tags,
        capacity |-> scanTags(page.tags, StrOsob, <<>>),
        bedrooms |-> scanTags(page.tags, StrLoznic, <<>>),
        fullDescription |-> full,
        description |-> shortDescription(full)]

\* ---------------------------------------------------------------- cache

\* mutant: a stale entry is treated as absent but stays in the slot
CacheGet_keepsStale(entry, t) ==
    IF entry = <<>> THEN [value |-> <<>>, entry |-> <<>>]
    ELSE IF t - entry[1].timestamp > CACHE_TTL_MS THEN [value |-> <<>>, entry |-> entry]
    ELSE [value |-> <<entry[1].data>>, entry |-> entry]

\* mutant: an entry whose sequence is empty is reported as absent
CacheGet_emptyIsAbsent(entry, t) ==
    IF entry = <<>> THEN [value |-> <<>>, entry |-> <<>>]
    ELSE IF t - entry[1].timestamp > CACHE_TTL_MS THEN [value |-> <<>>, entry |-> <<>>]
    ELSE IF entry[1].data = <<>> THEN [value |-> <<>>, entry |-> entry]
    ELSE [value |-> <<entry[1].data>>, entry |-> entry]

\* Cache.get at time t: the value returned (<<>> for null, <<data>> otherwise) and
\* the entry left behind. An entry is <<>> (null) or <<[data, timestamp]>>.
CacheGet(entry, t) ==
    IF entry = <<>> THEN [value |-> <<>>, entry |-> <<>>]
    ELSE IF t - entry[1].timestamp > CACHE_TTL_MS THEN [value |-> <<>>, entry |-> <<>>]
    ELSE [value |-> <<entry[1].data>>, entry |-> entry]

\* Cache.set at time t
CacheSet(data, t) == <<[data |-> data, timestamp |-> t]>>

\* ------------------------------------------------------- fetchWithRetry

MsgHttpError(code) == <<"H","T","T","P"," ","e","r","r","o","r","!"," ","s","t","a","t","u","s",":"," ">> \o IntToString(code)
MsgTimeout == <<"P","o","U+017E","a","d","a","v","e","k"," ","v","y","p","r","U+0161","e","l"," ","-"," ","s","e","r","v","e","r"," ","n","e","o","d","p","o","v","U+011B","d","U+011B","l"," ","v","U+010D","a","s">>
MsgNetwork(url) == <<"r","e","q","u","e","s","t"," ","t","o"," ">> \o url \o <<" ","f","a","i","l","e","d",","," ","r","e","a","s","o","n",":"," ","E","C","O","N","N","R","E","S","E","T">>

\* mutant: the response is returned without looking at response.ok
attemptEnd_anyStatusReturned(i, retries, o, url) ==
    LET caught(kind, msg) ==
            IF kind = "Timeout" THEN [next |-> "throw", kind |-> "Timeout", msg |-> MsgTimeout]
            ELSE IF i = retries THEN [next |-> "throw", kind |-> kind, msg |-> msg]
            ELSE [next |-> "retry", kind |-> kind, msg |-> msg]
    IN CASE o.t = "status" -> [next |-> "return", kind |-> "none", msg |-> <<>>]
         [] o.t = "neterr" -> caught("Network", MsgNetwork(url))
         [] o.t = "abort" -> caught("Timeout", MsgTimeout)

\* mutant: an aborted attempt is handled like any other rejection
attemptEnd_timeoutRetried(i, retries, o, url) ==
    LET caught(kind, msg) ==
            IF i = retries THEN [next |-> "throw", kind |-> kind, msg |-> msg]
            ELSE [next |-> "retry", kind |-> kind, msg |-> msg]
    IN CASE o.t = "status" /\ o.code \in 200..299 -> [next |-> "return", kind |-> "none", msg |-> <<>>]
         [] o.t = "status" /\ o.code \notin 200..299 ->
              IF o.code = 500 /\ i < retries
              THEN [next |-> "retry", kind |-> "HttpStatus", msg |-> <<>>]
              ELSE caught("HttpStatus", MsgHttpError(o.code))
         [] o.t = "neterr" -> caught("Network", MsgNetwork(url))
         [] o.t = "abort" -> caught("Timeout", MsgTimeout)

\* How one attempt of fetchWithRetry ends. i is the loop index, o the way the awaited
\* fetch settled: a response with a status, a rejection ("neterr"), or the abort of
\* the attempt's timer ("abort"). The result is "return" (the response goes to the
\* caller), "retry" (the loop goes on with i + 1) or "throw" (with kind and message).
\* A non-2xx status other than a retried 500 is thrown inside the try block, so
\* the catch block receives it like any rejection.
attemptEnd(i, retries, o, url) ==
    LET caught(kind, msg) ==
            IF kind = "Timeout" THEN [next |-> "throw", kind |-> "Timeout", msg |-> MsgTimeout]
            ELSE IF i = retries THEN [next |-> "throw", kind |-> kind, msg |-> msg]
            ELSE [next |-> "retry", kind |-> kind, msg |-> msg]
    IN CASE o.t = "status" /\ o.code \in 200..299 -> [next |-> "return", kind |-> "none", msg |-> <<>>]
         [] o.t = "status" /\ o.code \notin 200..299 ->
              IF o.code = 500 /\ i < retries
              THEN [next |-> "retry", kind |-> "HttpStatus", msg |-> <<>>]
              ELSE caught("HttpStatus", MsgHttpError(o.code))
         [] o.t = "neterr" -> caught("Network", MsgNetwork(url))
         [] o.t = "abort" -> caught("Timeout", MsgTimeout)

\* Math.random() gives r / RandomDenominator; the numerators drawn are the least
\* and the greatest
RandomDenominator == 4096
RandomDraws == {0, RandomDenominator - 1}
\* randomDelay(min, max): Math.floor(Math.random() * (max - min + 1)) + min, in ms
randomDelay(min, max, r) == ((r * (max - min + 1)) \div RandomDenominator) + min
BackoffMin == 1000
BackoffMax == 3000

\* ------------------------------------------------- tools/call handler
\* index.ts. A JSON value of the arguments object: its type tag and, by type, its
\* characters (s), its number (n) or its items (items, JSON values themselves).

JString(chars) == [ty |-> "string", s |-> chars, n |-> Fin(0), items |-> <<>>]
JNumber(num) == [ty |-> "number", s |-> <<>>, n |-> num, items |-> <<>>]
JArray(values) == [ty |-> "array", s |-> <<>>, n |-> Fin(0), items |-> values]
JNull == [ty |-> "null", s |-> <<>>, n |-> Fin(0), items |-> <<>>]
JTrue == [ty |-> "boolean", s |-> <<>>, n |-> Fin(1), items |-> <<>>]

\* the keys the handler reads, as they are spelled in its messages
KeyChars ==
    [query |-> <<"q","u","e","r","y">>, region |-> StrRegion, features |-> <<"f","e","a","t","u","r","e","s">>,
     persons |-> StrPersons, dateFrom |-> <<"d","a","t","e","F","r","o","m">>, dateTo |-> <<"d","a","t","e","T","o">>,
     priceMin |-> StrPriceMin, priceMax |-> StrPriceMax, maxResults |-> StrMaxResults, url |-> <<"u","r","l">>]
Keys == DOMAIN KeyChars
\* an arguments object without any of the keys
EmptyObject == [k \in Keys |-> <<>>]

isString(value) == value.ty = "string"
isNumber(value) == value.ty = "number" /\ value.n.k # "nan"
isStringArray(value) == value.ty = "array" /\ \A i \in DOMAIN value.items : value.items[i].ty = "string"

MsgParam(key, what) == <<"P","a","r","a","m","e","t","r"," ","'">> \o KeyChars[key] \o <<"'"," ">> \o what
MsgMustBeString(key) == MsgParam(key, <<"m","u","s","U+00ED"," ","b","U+00FD","t"," ","U+0159","e","t","U+011B","z","e","c">>)
MsgMustBeNumber(key) == MsgParam(key, <<"m","u","s","U+00ED"," ","b","U+00FD","t"," ","U+010D","U+00ED","s","l","o">>)
MsgMustBeStringArray(key) == MsgParam(key, <<"m","u","s","U+00ED"," ","b","U+00FD","t"," ","p","o","l","e"," ","U+0159","e","t","U+011B","z","c","U+016F">>)
MsgRequired(key) == MsgParam(key, <<"j","e"," ","p","o","v","i","n","n","U+00FD">>)

\* what a getter gives: the message it throws (err) or the value it returns (v, <<>>
\* for undefined)
Got(v) == [err |-> <<>>, v |-> v]
Threw(msg) == [err |-> <<msg>>, v |-> <<>>]
IsMissing(a, key) == a[key] = <<>> \/ a[key][1].ty = "null"

getStringArg(a, key) ==
    IF IsMissing(a, key) THEN Got(<<>>)
    ELSE IF ~isString(a[key][1]) THEN Threw(MsgMustBeString(key))
    ELSE Got(<<a[key][1].s>>)

getNumberArg(a, key) ==
    IF IsMissing(a, key) THEN Got(<<>>)
    ELSE IF ~isNumber(a[key][1]) THEN Threw(MsgMustBeNumber(key))
    ELSE Got(<<a[key][1].n>>)

getStringArrayArg(a, key) ==
    IF IsMissing(a, key) THEN Got(<<>>)
    ELSE IF ~isStringArray(a[key][1]) THEN Threw(MsgMustBeStringArray(key))
    ELSE Got(<<[i \in DOMAIN a[key][1].items |-> a[key][1].items[i].s]>>)

getRequiredStringArg(a, key) ==
    LET value == getStringArg(a, key)
    IN IF value.err # <<>> THEN value
       ELSE IF value.v = <<>> THEN Threw(MsgRequired(key))
       ELSE value

GenericMessage == <<"D","o","U+0161","l","o"," ","k"," ","n","e","o","U+010D","e","k","U+00E1","v","a","n","U+00E9"," ","c","h","y","b","U+011B"," ","p","U+0159","i"," ","z","p","r","a","c","o","v","U+00E1","n","U+00ED"," ","p","o","U+017E","a","d","a","v","k","u">>
\* the prefixes the patterns /^.../ of safePatterns test for
safePatterns ==
    { <<"N","e","p","l","a","t","n","U+00E1"," ","U","R","L">>,
      <<"U","R","L"," ","m","u","s","U+00ED">>,
      <<"N","e","p","l","a","t","n","U+00FD">>,
      <<"C","h","y","b","a"," ","p","U+0159","i">>,
      <<"P","a","r","a","m","e","t","r">>,
      <<"H","T","T","P"," ","e","r","r","o","r">>,
      <<"P","o","U+017E","a","d","a","v","e","k"," ","v","y","p","r","U+0161","e","l">>,
      <<"m","a","x","R","e","s","u","l","t","s">> }

\* sanitizeErrorMessage(error) for an Error with the given message
sanitizeErrorMessage(message) ==
    IF \E pattern \in safePatterns : startsWith(message, pattern) THEN message ELSE GenericMessage

ToolListRegions == <<"l","i","s","t","_","r","e","g","i","o","n","s">>
ToolListFeatures == <<"l","i","s","t","_","f","e","a","t","u","r","e","s">>
ToolSearchChalupy == <<"s","e","a","r","c","h","_","c","h","a","l","u","p","y">>
ToolGetPropertyDetails == <<"g","e","t","_","p","r","o","p","e","r","t","y","_","d","e","t","a","i","l","s">>
MsgMissingArguments == <<"C","h","y","b","U+00ED"," ","p","a","r","a","m","e","t","r","y">>
MsgUnknownTool(name) == <<"N","e","z","n","U+00E1","m","U+00FD"," ","n","U+00E1","s","t","r","o","j",":"," ">> \o name
ErrorPrefix == <<"C","h","y","b","a",":"," ">>
HandlerDefaultMaxResults == 10

\* getNumberArg(typedArgs, "maxResults") || 10
maxResultsOrDefault(got) ==
    IF got.v = <<>> \/ ~NumTruthy(got.v[1]) THEN <<Fin(2 * HandlerDefaultMaxResults)>> ELSE got.v

\* the object literal passed to searchChalupy: the getters run in the order of its
\* properties and the first that throws ends the evaluation
searchArguments(a) ==
    LET got == [query |-> getStringArg(a, "query"), region |-> getStringArg(a, "region"),
                features |-> getStringArrayArg(a, "features"), persons |-> getNumberArg(a, "persons"),
                dateFrom |-> getStringArg(a, "dateFrom"), dateTo |-> getStringArg(a, "dateTo"),
                priceMin |-> getNumberArg(a, "priceMin"), priceMax |-> getNumberArg(a, "priceMax"),
                maxResults |-> getNumberArg(a, "maxResults")]
        order == <<"query", "region", "features", "persons", "dateFrom", "dateTo", "priceMin", "priceMax", "maxResults">>
        failed == {i \in DOMAIN order : got[order[i]].err # <<>>}
    IN IF failed # {}
       THEN Threw(got[order[CHOOSE i \in failed : \A j \in failed : i <= j]].err[1])
       ELSE Got(<<[query |-> got.query.v, region |-> got.region.v, features |-> got.features.v,
                   persons |-> got.persons.v, dateFrom |-> got.dateFrom.v, dateTo |-> got.dateTo.v,
                   priceMin |-> got.priceMin.v, priceMax |-> got.priceMax.v,
                   maxResults |-> maxResultsOrDefault(got.maxResults)]>>)

\* JSON.stringify(value, null, 2): the text is kept as the value it serialises
JSONstringify(value) == <<"JSON", value>>
\* the handler's two kinds of return value, and the rejection of its promise
SuccessResponse(value) == [t |-> "result", isError |-> FALSE, text |-> JSONstringify(value)]
ErrorResponse(message) == [t |-> "result", isError |-> TRUE, text |-> ErrorPrefix \o sanitizeErrorMessage(message)]
HandlerThrew(message) == [t |-> "thrown", isError |-> FALSE, text |-> message]

\* --------------------------------------------------------------- state

MaxCalls == 2

VARIABLES
    now,            \* Date.now(), in ms
    regionsCache,   \* regionsCache.entry
    featuresCache,  \* featuresCache.entry
    written,        \* history: per cache, the entry of the last Cache.set
    op,             \* per call: the operation invoked ("none" before the call)
    pc,             \* per call: where the async function stands
    args,           \* per call: its arguments
    target,         \* per call: the URL given to fetchWithRetry
    attempt,        \* per call: fetchWithRetry's loop index i
    trace,          \* per call, history: its delays, fetch attempts and their ends
    issued,         \* per call, history: the time of the call
    seen,           \* per call, history: what the call's Cache.get met
    result,         \* per call: what it returned or threw
    fetched,        \* history: every URL handed to fetchWithRetry
    bodyRead,       \* per call, history: <<the page that response.text() gave>>
    request,        \* per call: the tools/call request that made it (<<>> for a direct call)
    response,       \* per call: what the tools/call handler returned or threw
    touched         \* per call, history: what the call did to the cache slots

vars == <<now, regionsCache, featuresCache, written, op, pc, args, target, attempt, trace, issued, seen, result, fetched,
          bodyRead, request, response, touched>>

Calls == 1..MaxCalls

NoParams == [query |-> <<>>, region |-> <<>>, features |-> <<>>, persons |-> <<>>, dateFrom |-> <<>>,
             dateTo |-> <<>>, priceMin |-> <<>>, priceMax |-> <<>>, maxResults |-> <<>>]
NoArgs == [params |-> NoParams, url |-> <<>>]
NoResult == [ok |-> FALSE, kind |-> "none", msg |-> <<>>, value |-> <<>>]
Event(t) == [t |-> t, code |-> 0]
NoResponse == [t |-> "none", isError |-> FALSE, text |-> <<>>]

Init ==
    /\ now = 0
    /\ regionsCache = <<>>
    /\ featuresCache = <<>>
    /\ written = [regions |-> <<>>, features |-> <<>>]
    /\ op = [c \in Calls |-> "none"]
    /\ pc = [c \in Calls |-> "idle"]
    /\ args = [c \in Calls |-> NoArgs]
    /\ target = [c \in Calls |-> <<>>]
    /\ attempt = [c \in Calls |-> 0]
    /\ trace = [c \in Calls |-> <<>>]
    /\ issued = [c \in Calls |-> 0]
    /\ seen = [c \in Calls |-> "none"]
    /\ result = [c \in Calls |-> NoResult]
    /\ fetched = {}
    /\ bodyRead = [c \in Calls |-> <<>>]
    /\ request = [c \in Calls |-> <<>>]
    /\ response = [c \in Calls |-> NoResponse]
    /\ touched = [c \in Calls |-> <<>>]

\* the prefix each operation's catch block puts before the message it rethrows
WrapPrefix(o) ==
    CASE o = "search" -> <<"C","h","y","b","a"," ","p","U+0159","i"," ","v","y","h","l","e","d","U+00E1","v","U+00E1","n","U+00ED",":"," ">>
      [] o = "details" -> <<"C","h","y","b","a"," ","p","U+0159","i"," ","n","a","U+010D","U+00ED","t","U+00E1","n","U+00ED"," ","d","e","t","a","i","l","u",":"," ">>
      [] o = "regions" -> <<"C","h","y","b","a"," ","p","U+0159","i"," ","n","a","U+010D","U+00ED","t","U+00E1","n","U+00ED"," ","r","e","g","i","o","n","U+016F",":"," ">>
      [] o = "features" -> <<"C","h","y","b","a"," ","p","U+0159","i"," ","n","a","U+010D","U+00ED","t","U+00E1","n","U+00ED"," ","v","l","a","s","t","n","o","s","t","U+00ED",":"," ">>

Thrown(kind, msg) == [ok |-> FALSE, kind |-> kind, msg |-> msg, value |-> <<>>]
Returned(value) == [ok |-> TRUE, kind |-> "none", msg |-> <<>>, value |-> value]

CacheUnchanged == UNCHANGED <<regionsCache, featuresCache, written>>
\* what a call did to a cache slot: Cache.get removed its entry, or Cache.set stored one
Cleared(cache) == [cache |-> cache, how |-> "cleared"]
WasSet(cache) == [cache |-> cache, how |-> "set"]
HandlerUnchanged == UNCHANGED <<request, response>>

\* The call is made: o with arguments a, at the current time. Calls are numbered
\* in the order they are made.
Called(c, o, a) ==
    /\ pc[c] = "idle"
    /\ IF c = 1 THEN TRUE ELSE pc[c - 1] # "idle"
    /\ op' = [op EXCEPT ![c] = o]
    /\ args' = [args EXCEPT ![c] = a]
    /\ issued' = [issued EXCEPT ![c] = now]
    /\ UNCHANGED now

\* mutant: a validation error is recorded and the request is made all the same
searchChalupyCalled_failsLate(c, p) ==
    /\ Called(c, "search", [params |-> p, url |-> <<>>])
    /\ LET errors == SearchValidation(p)
       IN /\ pc' = [pc EXCEPT ![c] = "delay"]
          /\ target' = [target EXCEPT ![c] = searchUrl(p)]
          /\ trace' = [trace EXCEPT ![c] = Append(@, Event("delay"))]
          /\ result' = [result EXCEPT ![c] =
                 IF errors # <<>> THEN Thrown("InvalidParameter", errors[1]) ELSE @]
    /\ CacheUnchanged
    /\ UNCHANGED <<attempt, seen, fetched>>
    /\ UNCHANGED <<bodyRead, touched>>

\* searchChalupy(params) up to its first await: the validation block throws, or the
\* URL is built and randomDelay() is awaited
searchChalupyCalled(c, p) ==
    /\ Called(c, "search", [params |-> p, url |-> <<>>])
    /\ LET errors == SearchValidation(p)
       IN IF errors # <<>>
          THEN /\ pc' = [pc EXCEPT ![c] = "done"]
               /\ result' = [result EXCEPT ![c] = Thrown("InvalidParameter", errors[1])]
               /\ UNCHANGED <<target, trace>>
          ELSE /\ pc' = [pc EXCEPT ![c] = "delay"]
               /\ target' = [target EXCEPT ![c] = searchUrl(p)]
               /\ trace' = [trace EXCEPT ![c] = Append(@, Event("delay"))]
               /\ UNCHANGED result
    /\ CacheUnchanged
    /\ UNCHANGED <<attempt, seen, fetched>>
    /\ UNCHANGED <<bodyRead, touched>>

\* searchChalupy(params) called directly, not through the tools/call handler
searchChalupy(c, p) == searchChalupyCalled(c, p) /\ HandlerUnchanged

\* getPropertyDetails(url) up to its first await: validateUrl throws, or
\* randomDelay() is awaited
getPropertyDetailsCalled(c, url) ==
    /\ Called(c, "details", [params |-> NoParams, url |-> url])
    /\ LET errors == validateUrl(url)
       IN IF errors # <<>>
          THEN /\ pc' = [pc EXCEPT ![c] = "done"]
               /\ result' = [result EXCEPT ![c] = Thrown("InvalidUrl", errors[1])]
               /\ UNCHANGED <<target, trace>>
          ELSE /\ pc' = [pc EXCEPT ![c] = "delay"]
               /\ target' = [target EXCEPT ![c] = url]
               /\ trace' = [trace EXCEPT ![c] = Append(@, Event("delay"))]
               /\ UNCHANGED result
    /\ CacheUnchanged
    /\ UNCHANGED <<attempt, seen, fetched>>
    /\ UNCHANGED <<bodyRead, touched>>

\* getPropertyDetails(url) called directly, not through the tools/call handler
getPropertyDetails(c, url) == getPropertyDetailsCalled(c, url) /\ HandlerUnchanged

\* what a Cache.get at time t meets, read off the entry itself
Met(entry, t) ==
    IF entry = <<>> THEN "empty"
    ELSE IF t - entry[1].timestamp > CACHE_TTL_MS THEN "expired" ELSE "fresh"

CatalogUrl == BASE_URL \o DefaultSearchPath

\* listRegions() up to its first await: the cached sequence is returned, or
\* fetchWithRetry starts its first attempt (no delay comes before it)
listRegionsCalled(c) ==
    /\ Called(c, "regions", NoArgs)
    /\ seen' = [seen EXCEPT ![c] = Met(regionsCache, now)]
    /\ LET got == CacheGet(regionsCache, now)
       IN /\ regionsCache' = got.entry
          /\ IF got.value # <<>>
             THEN /\ pc' = [pc EXCEPT ![c] = "done"]
                  /\ result' = [result EXCEPT ![c] = Returned(got.value[1])]
                  /\ UNCHANGED <<target, trace, fetched>>
             ELSE /\ pc' = [pc EXCEPT ![c] = "fetch"]
                  /\ target' = [target EXCEPT ![c] = CatalogUrl]
                  /\ trace' = [trace EXCEPT ![c] = Append(@, Event("attempt"))]
                  /\ fetched' = fetched \cup {CatalogUrl}
                  /\ UNCHANGED result
    /\ UNCHANGED <<featuresCache, written, attempt>>
    /\ UNCHANGED bodyRead
    /\ touched' = [touched EXCEPT ![c] = IF regionsCache' # regionsCache THEN <<Cleared("regions")>> ELSE <<>>]

\* listRegions() called directly, not through the tools/call handler
listRegions(c) == listRegionsCalled(c) /\ HandlerUnchanged

\* listFeatures(): as listRegions, on featuresCache
listFeaturesCalled(c) ==
    /\ Called(c, "features", NoArgs)
    /\ seen' = [seen EXCEPT ![c] = Met(featuresCache, now)]
    /\ LET got == CacheGet(featuresCache, now)
       IN /\ featuresCache' = got.entry
          /\ IF got.value # <<>>
             THEN /\ pc' = [pc EXCEPT ![c] = "done"]
                  /\ result' = [result EXCEPT ![c] = Returned(got.value[1])]
                  /\ UNCHANGED <<target, trace, fetched>>
             ELSE /\ pc' = [pc EXCEPT ![c] = "fetch"]
                  /\ target' = [target EXCEPT ![c] = CatalogUrl]
                  /\ trace' = [trace EXCEPT ![c] = Append(@, Event("attempt"))]
                  /\ fetched' = fetched \cup {CatalogUrl}
                  /\ UNCHANGED result
    /\ UNCHANGED <<regionsCache, written, attempt>>
    /\ UNCHANGED bodyRead
    /\ touched' = [touched EXCEPT ![c] = IF featuresCache' # featuresCache THEN <<Cleared("features")>> ELSE <<>>]

\* listFeatures() called directly, not through the tools/call handler
listFeatures(c) == listFeaturesCalled(c) /\ HandlerUnchanged

\* randomDelay() resolves in searchChalupy or getPropertyDetails: fetchWithRetry
\* is called and starts its first attempt
delayEnds(c) ==
    /\ pc[c] = "delay"
    /\ pc' = [pc EXCEPT ![c] = "fetch"]
    /\ trace' = [trace EXCEPT ![c] = Append(@, Event("attempt"))]
    /\ fetched' = fetched \cup {target[c]}
    /\ CacheUnchanged
    /\ UNCHANGED <<now, op, args, target, attempt, issued, seen, result>>
    /\ HandlerUnchanged
    /\ UNCHANGED <<bodyRead, touched>>

\* mutant: the loop goes on to the next attempt without awaiting randomDelay
fetchSettles_retryAtOnce(c, o) ==
    /\ pc[c] = "fetch"
    /\ LET end == attemptEnd(attempt[c], DefaultRetries, o, target[c])
       IN /\ trace' = [trace EXCEPT ![c] =
                 IF end.next = "retry" THEN Append(Append(@, o), Event("attempt")) ELSE Append(@, o)]
          /\ CASE end.next = "return" ->
                    /\ pc' = [pc EXCEPT ![c] = "text"]
                    /\ UNCHANGED <<attempt, result>>
               [] end.next = "retry" ->
                    /\ attempt' = [attempt EXCEPT ![c] = @ + 1]
                    /\ UNCHANGED <<pc, result>>
               [] end.next = "throw" ->
                    /\ pc' = [pc EXCEPT ![c] = "done"]
                    /\ result' = [result EXCEPT ![c] = Thrown(end.kind, WrapPrefix(op[c]) \o end.msg)]
                    /\ UNCHANGED attempt
    /\ CacheUnchanged
    /\ UNCHANGED <<now, op, args, target, issued, seen, fetched>>
    /\ HandlerUnchanged
    /\ UNCHANGED <<bodyRead, touched>>

\* The awaited fetch of attempt i settles as o. The per-attempt timer of
\* FETCH_TIMEOUT_MS is not clocked: its firing is the outcome "abort". When the loop
\* goes on, its next iteration awaits randomDelay(1000, 3000): the "backoff" event
\* carries the delay drawn, in ms.
fetchSettles(c, o) ==
    /\ pc[c] = "fetch"
    /\ LET end == attemptEnd(attempt[c], DefaultRetries, o, target[c])
       IN /\ \E r \in RandomDraws :
                 trace' = [trace EXCEPT ![c] =
                     IF end.next = "retry"
                     THEN Append(Append(@, o), [t |-> "backoff", code |-> randomDelay(BackoffMin, BackoffMax, r)])
                     ELSE Append(@, o)]
          /\ CASE end.next = "return" ->
                    /\ pc' = [pc EXCEPT ![c] = "text"]
                    /\ UNCHANGED <<attempt, result>>
               [] end.next = "retry" ->
                    /\ pc' = [pc EXCEPT ![c] = "backoff"]
                    /\ attempt' = [attempt EXCEPT ![c] = @ + 1]
                    /\ UNCHANGED result
               [] end.next = "throw" ->
                    /\ pc' = [pc EXCEPT ![c] = "done"]
                    /\ result' = [result EXCEPT ![c] = Thrown(end.kind, WrapPrefix(op[c]) \o end.msg)]
                    /\ UNCHANGED attempt
    /\ CacheUnchanged
    /\ UNCHANGED <<now, op, args, target, issued, seen, fetched>>
    /\ HandlerUnchanged
    /\ UNCHANGED <<bodyRead, touched>>

\* randomDelay(1000, 3000) resolves inside fetchWithRetry: the next attempt starts
backoffEnds(c) ==
    /\ pc[c] = "backoff"
    /\ pc' = [pc EXCEPT ![c] = "fetch"]
    /\ trace' = [trace EXCEPT ![c] = Append(@, Event("attempt"))]
    /\ CacheUnchanged
    /\ UNCHANGED <<now, op, args, target, attempt, issued, seen, result, fetched>>
    /\ HandlerUnchanged
    /\ UNCHANGED <<bodyRead, touched>>

\* mutant: when the body cannot be read, listRegions stores an empty catalog
bodyFails_storesEmpty(c) ==
    /\ pc[c] = "text"
    /\ pc' = [pc EXCEPT ![c] = "done"]
    /\ result' = [result EXCEPT ![c] = Thrown("Body", WrapPrefix(op[c]) \o <<"P","r","e","m","a","t","u","r","e"," ","c","l","o","s","e">>)]
    /\ IF op[c] = "regions"
       THEN /\ regionsCache' = CacheSet(<<>>, now)
            /\ written' = [written EXCEPT !.regions = <<[data |-> <<>>, timestamp |-> now]>>]
            /\ touched' = [touched EXCEPT ![c] = Append(@, WasSet("regions"))]
            /\ UNCHANGED featuresCache
       ELSE CacheUnchanged /\ UNCHANGED touched
    /\ UNCHANGED <<now, op, args, target, attempt, trace, issued, seen, fetched>>
    /\ HandlerUnchanged
    /\ UNCHANGED bodyRead

\* response.text() rejects: the operation's catch block rethrows
bodyFails(c) ==
    /\ pc[c] = "text"
    /\ pc' = [pc EXCEPT ![c] = "done"]
    /\ result' = [result EXCEPT ![c] = Thrown("Body", WrapPrefix(op[c]) \o <<"P","r","e","m","a","t","u","r","e"," ","c","l","o","s","e">>)]
    /\ CacheUnchanged
    /\ UNCHANGED <<now, op, args, target, attempt, trace, issued, seen, fetched>>
    /\ HandlerUnchanged
    /\ UNCHANGED <<bodyRead, touched>>

\* response.text() resolves in searchChalupy with a page of rows
searchBody(c, rows) ==
    /\ pc[c] = "text" /\ op[c] = "search"
    /\ pc' = [pc EXCEPT ![c] = "done"]
    /\ result' = [result EXCEPT ![c] = Returned(searchResults(args[c].params, rows))]
    /\ CacheUnchanged
    /\ UNCHANGED <<now, op, args, target, attempt, trace, issued, seen, fetched>>
    /\ HandlerUnchanged
    /\ bodyRead' = [bodyRead EXCEPT ![c] = <<rows>>]
    /\ UNCHANGED touched

\* response.text() resolves in getPropertyDetails
detailsBody(c, body) ==
    /\ pc[c] = "text" /\ op[c] = "details"
    /\ pc' = [pc EXCEPT ![c] = "done"]
    /\ result' = [result EXCEPT ![c] = Returned(detailsOf(args[c].url, body))]
    /\ CacheUnchanged
    /\ UNCHANGED <<now, op, args, target, attempt, trace, issued, seen, fetched>>
    /\ HandlerUnchanged
    /\ bodyRead' = [bodyRead EXCEPT ![c] = <<body>>]
    /\ UNCHANGED touched

\* mutant: the array the anchors are pushed to is the cached one, shared by the calls
regionsBody_sharedArray(c, anchors) ==
    /\ pc[c] = "text" /\ op[c] = "regions"
    /\ LET regions == catalogOf(anchors, czechRegions, IF regionsCache = <<>> THEN <<>> ELSE regionsCache[1].data)
       IN /\ regionsCache' = CacheSet(regions, now)
          /\ written' = [written EXCEPT !.regions = <<[data |-> regions, timestamp |-> now]>>]
          /\ result' = [result EXCEPT ![c] = Returned(regions)]
    /\ pc' = [pc EXCEPT ![c] = "done"]
    /\ UNCHANGED <<now, featuresCache, op, args, target, attempt, trace, issued, seen, fetched>>
    /\ HandlerUnchanged
    /\ bodyRead' = [bodyRead EXCEPT ![c] = <<anchors>>]
    /\ touched' = [touched EXCEPT ![c] = Append(@, WasSet("regions"))]

\* response.text() resolves in listRegions: extract, regionsCache.set, return
regionsBody(c, anchors) ==
    /\ pc[c] = "text" /\ op[c] = "regions"
    /\ LET regions == catalogOf(anchors, czechRegions, <<>>)
       IN /\ regionsCache' = CacheSet(regions, now)
          /\ written' = [written EXCEPT !.regions = <<[data |-> regions, timestamp |-> now]>>]
          /\ result' = [result EXCEPT ![c] = Returned(regions)]
    /\ pc' = [pc EXCEPT ![c] = "done"]
    /\ UNCHANGED <<now, featuresCache, op, args, target, attempt, trace, issued, seen, fetched>>
    /\ HandlerUnchanged
    /\ bodyRead' = [bodyRead EXCEPT ![c] = <<anchors>>]
    /\ touched' = [touched EXCEPT ![c] = Append(@, WasSet("regions"))]

\* response.text() resolves in listFeatures: extract, featuresCache.set, return
featuresBody(c, anchors) ==
    /\ pc[c] = "text" /\ op[c] = "features"
    /\ LET features == catalogOf(anchors, featureSlugs, <<>>)
       IN /\ featuresCache' = CacheSet(features, now)
          /\ written' = [written EXCEPT !.features = <<[data |-> features, timestamp |-> now]>>]
          /\ result' = [result EXCEPT ![c] = Returned(features)]
    /\ pc' = [pc EXCEPT ![c] = "done"]
    /\ UNCHANGED <<now, regionsCache, op, args, target, attempt, trace, issued, seen, fetched>>
    /\ HandlerUnchanged
    /\ bodyRead' = [bodyRead EXCEPT ![c] = <<anchors>>]
    /\ touched' = [touched EXCEPT ![c] = Append(@, WasSet("features"))]

\* The handler ends before any operation is called: the slot of the call is used up
\* and no operation runs in it.
NothingCalled(c) ==
    /\ pc[c] = "idle"
    /\ IF c = 1 THEN TRUE ELSE pc[c - 1] # "idle"
    /\ pc' = [pc EXCEPT ![c] = "done"]
    /\ issued' = [issued EXCEPT ![c] = now]
    /\ CacheUnchanged
    /\ UNCHANGED <<now, op, args, target, attempt, trace, seen, result, fetched>>
    /\ UNCHANGED <<bodyRead, touched>>

\* The tools/call handler up to its first await: it throws on missing arguments,
\* returns the flagged error of a getter or of an unknown tool name, or calls the
\* operation named and awaits it.
callTool(c, req) ==
    /\ request' = [request EXCEPT ![c] = <<req>>]
    /\ IF req.arguments = <<>>
       THEN /\ response' = [response EXCEPT ![c] = HandlerThrew(MsgMissingArguments)]
            /\ NothingCalled(c)
       ELSE LET typedArgs == req.arguments[1]
            IN CASE req.name = ToolListRegions -> listRegionsCalled(c) /\ UNCHANGED response
                 [] req.name = ToolListFeatures -> listFeaturesCalled(c) /\ UNCHANGED response
                 [] req.name = ToolSearchChalupy ->
                      LET params == searchArguments(typedArgs)
                      IN IF params.err # <<>>
                         THEN /\ response' = [response EXCEPT ![c] = ErrorResponse(params.err[1])]
                              /\ NothingCalled(c)
                         ELSE searchChalupyCalled(c, params.v[1]) /\ UNCHANGED response
                 [] req.name = ToolGetPropertyDetails ->
                      LET url == getRequiredStringArg(typedArgs, "url")
                      IN IF url.err # <<>>
                         THEN /\ response' = [response EXCEPT ![c] = ErrorResponse(url.err[1])]
                              /\ NothingCalled(c)
                         ELSE getPropertyDetailsCalled(c, url.v[1]) /\ UNCHANGED response
                 [] OTHER ->
                      /\ response' = [response EXCEPT ![c] = ErrorResponse(MsgUnknownTool(req.name))]
                      /\ NothingCalled(c)

\* The awaited operation has settled: the handler returns its result as text, or its
\* catch block returns the flagged error.
toolReturns(c) ==
    /\ request[c] # <<>> /\ op[c] # "none"
    /\ pc[c] = "done" /\ response[c].t = "none"
    /\ response' = [response EXCEPT ![c] =
           IF result[c].ok THEN SuccessResponse(result[c].value) ELSE ErrorResponse(result[c].msg)]
    /\ CacheUnchanged
    /\ UNCHANGED <<now, op, pc, args, target, attempt, trace, issued, seen, result, fetched, request>>
    /\ UNCHANGED <<bodyRead, touched>>

\* The caller takes the url of a listing that an earlier search returned and asks
\* for that property's details.
followListing(c) ==
    \E d \in Calls :
        /\ d < c /\ op[d] = "search" /\ pc[d] = "done" /\ result[d].ok
        /\ \E i \in DOMAIN result[d].value : getPropertyDetails(c, result[d].value[i].url)

\* the clock readings drawn: whole TTLs plus a few ms
MaxHours == 1
MaxExtraMs == 1
ClockValues == {a * CACHE_TTL_MS + b : a \in 0..MaxHours, b \in 0..MaxExtraMs}
TickSteps == {1, CACHE_TTL_MS}

\* time passes
Tick(d) ==
    /\ now + d \in ClockValues
    /\ now' = now + d
    /\ CacheUnchanged
    /\ UNCHANGED <<op, pc, args, target, attempt, trace, issued, seen, result, fetched>>
    /\ HandlerUnchanged
    /\ UNCHANGED <<bodyRead, touched>>

\* -------------------------------------------------------------- inputs

Repeat(c, n) == [i \in 1..n |-> c]

\* the longest page of rows drawn
MaxRows == 3

SlugKrkonose == <<"k","r","k","o","n","o","s","e">>
SlugTerasa == <<"t","e","r","a","s","a">>
SlugSauna == <<"s","e","-","s","a","u","n","o","u">>
SlugUpper == <<"K","r","k","o","n","o","s","e">>
SlugSlash == <<"a","/","b">>
SlugLongest == Repeat("a", MaxSlugLength)
SlugTooLong == Repeat("a", MaxSlugLength + 1)

RegionOptions == {<<>>, << <<>> >>, <<SlugKrkonose>>, <<SlugUpper>>, <<SlugSlash>>, <<SlugLongest>>, <<SlugTooLong>>}
FeaturesOptions == {<<>>, << <<>> >>, << <<SlugTerasa>> >>, << <<SlugTerasa, SlugSauna>> >>, << <<SlugSauna, SlugTerasa>> >>,
                    << <<SlugTerasa, <<>> >> >>, << <<SlugTerasa, SlugSlash>> >>, << <<SlugTooLong>> >>}

DateJuly == <<"2","0","2","6","-","0","7","-","1","1">>
DateLeapDay == <<"2","0","2","4","-","0","2","-","2","9">>
DateFeb29 == <<"2","0","2","6","-","0","2","-","2","9">>
DateFeb30 == <<"2","0","2","6","-","0","2","-","3","0">>
DateApr31 == <<"2","0","2","6","-","0","4","-","3","1">>
DateMonth13 == <<"2","0","2","6","-","1","3","-","0","1">>
DateMonth00 == <<"2","0","2","6","-","0","0","-","1","0">>
DateDay32 == <<"2","0","2","6","-","0","7","-","3","2">>
DateDay00 == <<"2","0","2","6","-","0","7","-","0","0">>
DateShort == <<"2","0","2","6","-","7","-","1">>
DateDotted == <<"1","1",".","0","7",".","2","0","2","6">>
DateTrailing == <<"2","0","2","6","-","0","7","-","1","1"," ">>

DateOptions == {<<>>, << <<>> >>, <<DateJuly>>, <<DateLeapDay>>, <<DateFeb29>>, <<DateFeb30>>, <<DateApr31>>, <<DateMonth13>>,
                <<DateMonth00>>, <<DateDay32>>, <<DateDay00>>, <<DateShort>>, <<DateDotted>>, <<DateTrailing>>}

NumberOptions == {<<>>, <<Fin(0)>>, <<Fin(1)>>, <<Fin(8)>>, <<Fin(0 - 1)>>, <<Fin(0 - 8)>>, <<NaN>>, <<PosInfinity>>, <<NegInfinity>>}
MaxResultsOptions == {<<>>, <<NaN>>, <<PosInfinity>>, <<NegInfinity>>, <<Fin(0 - 2)>>}
                     \cup {<<Fin(h)>> : h \in 0..(2 * MaxRows + 1)}
                     \cup {<<Fin(h)>> : h \in (2 * MaxResultsCeiling - 1)..(2 * MaxResultsCeiling + 2)}
QuerySauna == <<"s","a","u","n","a">>
QueryOptions == {<<>>, << <<>> >>, <<QuerySauna>>}
QueryUpper == <<"S","A","U","N","A">>

Fields == {"query", "region", "features", "persons", "dateFrom", "dateTo", "priceMin", "priceMax", "maxResults"}
Options(f) ==
    CASE f = "query" -> QueryOptions
      [] f = "region" -> RegionOptions
      [] f = "features" -> FeaturesOptions
      [] f \in {"dateFrom", "dateTo"} -> DateOptions
      [] f \in {"persons", "priceMin", "priceMax"} -> NumberOptions
      [] f = "maxResults" -> MaxResultsOptions

\* every SearchParams that supplies at most two fields
WideParams ==
    UNION {UNION {{[[NoParams EXCEPT ![f] = v] EXCEPT ![g] = w] : v \in Options(f), w \in Options(g)} : g \in Fields} : f \in Fields}

\* queries and result limits for a page of up to MaxRows rows
ExtractParams ==
    {[NoParams EXCEPT !.query = q, !.maxResults = m] :
        q \in QueryOptions \cup {<<QueryUpper>>},
        m \in {<<>>} \cup {<<Fin(h)>> : h \in 0..(2 * MaxRows + 1)}}

NarrowParams ==
    {[NoParams EXCEPT !.region = <<SlugKrkonose>>, !.features = << <<SlugTerasa, SlugSauna>> >>, !.persons = <<Fin(8)>>,
                      !.dateFrom = <<DateJuly>>, !.maxResults = <<Fin(2)>>],
     [NoParams EXCEPT !.region = <<SlugSlash>>],
     [NoParams EXCEPT !.features = << <<SlugSauna>> >>, !.dateTo = <<DateFeb30>>, !.priceMax = <<Fin(1)>>]}

UrlGood == <<"h","t","t","p","s",":","/","/","w","w","w",".","e","-","c","h","a","l","u","p","y",".","c","z","/","c","h","a","t","a","-","1">>
UrlHttp == <<"h","t","t","p",":","/","/","w","w","w",".","e","-","c","h","a","l","u","p","y",".","c","z","/","c","h","a","t","a","-","1">>
UrlEvil == <<"h","t","t","p","s",":","/","/","e","v","i","l",".","c","o","m","/","c","h","a","t","a","-","1">>
UrlSuffix == <<"h","t","t","p","s",":","/","/","w","w","w",".","e","-","c","h","a","l","u","p","y",".","c","z",".","e","v","i","l",".","c","o","m","/">>
UrlUserinfoTrick == <<"h","t","t","p","s",":","/","/","w","w","w",".","e","-","c","h","a","l","u","p","y",".","c","z","@","e","v","i","l",".","c","o","m","/">>
UrlUserinfo == <<"h","t","t","p","s",":","/","/","e","v","i","l",".","c","o","m","@","w","w","w",".","e","-","c","h","a","l","u","p","y",".","c","z","/","x">>
UrlUpper == <<"H","T","T","P","S",":","/","/","W","W","W",".","E","-","C","H","A","L","U","P","Y",".","C","Z","/","x">>
UrlPort == <<"h","t","t","p","s",":","/","/","w","w","w",".","e","-","c","h","a","l","u","p","y",".","c","z",":","8","4","4","3","/","x">>
UrlBadPort == <<"h","t","t","p","s",":","/","/","w","w","w",".","e","-","c","h","a","l","u","p","y",".","c","z",":","8","0","a","/","x">>
UrlRelative == <<"/","c","h","a","t","a","-","1">>
UrlNoScheme == <<"w","w","w",".","e","-","c","h","a","l","u","p","y",".","c","z","/","c","h","a","t","a","-","1">>
UrlNoSlashes == <<"h","t","t","p","s",":","w","w","w",".","e","-","c","h","a","l","u","p","y",".","c","z","/","x">>
UrlBackslash == <<"h","t","t","p","s",":","/","/","e","v","i","l",".","c","o","m","\\","@","w","w","w",".","e","-","c","h","a","l","u","p","y",".","c","z","/">>
UrlInQuery == <<"h","t","t","p","s",":","/","/","e","v","i","l",".","c","o","m","/","?","u","=","h","t","t","p","s",":","/","/","w","w","w",".","e","-","c","h","a","l","u","p","y",".","c","z","/">>
UrlFtp == <<"f","t","p",":","/","/","w","w","w",".","e","-","c","h","a","l","u","p","y",".","c","z","/","x">>
UrlJavascript == <<"j","a","v","a","s","c","r","i","p","t",":","a","l","e","r","t","(","1",")">>
UrlFile == <<"c","u","s","t","o","m",":","/","/","w","w","w",".","e","-","c","h","a","l","u","p","y",".","c","z","/","x">>
UrlSpaces == <<" ","h","t","t","p","s",":","/","/","w","w","w",".","e","-","c","h","a","l","u","p","y",".","c","z","/","x"," ">>

WideUrls == {<<>>, UrlGood, UrlHttp, UrlEvil, UrlSuffix, UrlUserinfoTrick, UrlUserinfo, UrlUpper, UrlPort, UrlBadPort,
             UrlRelative, UrlNoScheme, UrlNoSlashes, UrlBackslash, UrlInQuery, UrlFtp, UrlJavascript, UrlFile, UrlSpaces}
NarrowUrls == {UrlGood, UrlHttp}

Status(code) == [t |-> "status", code |-> code]
WideOutcomes == {Status(200), Status(204), Status(304), Status(404), Status(500), Status(503), Event("neterr"), Event("abort")}
NarrowOutcomes == {Status(200), Status(404), Event("abort")}
CacheOutcomes == {Status(200), Event("abort")}

RowFull == [title |-> <<" ","C","h","a","t","a"," ","S","a","u","n","a"," ">>, price |-> <<"1"," ","2","0","0"," ","K","U+010D">>, location |-> <<"H","a","r","r","a","c","h","o","v">>,
            location2 |-> <<"K","r","k","o","n","o","U+0161","e">>, description |-> <<"U"," ","l","e","s","a">>, link |-> <<"/","c","h","a","t","a","-","1">>]
RowBare == [title |-> <<"R","o","u","b","e","n","k","a">>, price |-> <<>>, location |-> <<>>, location2 |-> <<>>,
            description |-> <<"S","a","u","n","a"," ","v","e","n","k","o","v","n","U+00ED">>, link |-> <<"h","t","t","p","s",":","/","/","w","w","w",".","e","-","c","h","a","l","u","p","y",".","c","z","/","r","o","u","b","e","n","k","a","-","2">>]
RowNoTitle == [title |-> <<" ">>, price |-> <<"9","0","0"," ","K","U+010D">>, location |-> <<>>, location2 |-> <<>>, description |-> <<>>, link |-> <<"/","c","h","a","t","a","-","3">>]
RowNoLink == [title |-> <<"S","r","u","b">>, price |-> <<>>, location |-> <<"L","i","p","n","o">>, location2 |-> <<>>, description |-> <<>>, link |-> <<>>]
RowOther == [title |-> <<"S","r","u","b"," ","L","i","p","n","o">>, price |-> <<"9","5","0"," ","K","U+010D">>, location |-> <<"L","i","p","n","o">>, location2 |-> <<>>, description |-> <<"U"," ","v","o","d","y">>, link |-> <<"/","s","r","u","b","-","4">>]
Rows == {RowFull, RowBare, RowNoTitle, RowNoLink, RowOther}
\* rows whose link is absolute with another scheme or host, or has no leading slash
RowHttpLink == [title |-> <<"C","h","a","t","a"," ","5">>, price |-> <<>>, location |-> <<>>, location2 |-> <<>>, description |-> <<>>, link |-> <<"h","t","t","p",":","/","/","w","w","w",".","e","-","c","h","a","l","u","p","y",".","c","z","/","c","h","a","t","a","-","5">>]
RowForeignLink == [title |-> <<"C","h","a","t","a"," ","6">>, price |-> <<>>, location |-> <<>>, location2 |-> <<>>, description |-> <<>>, link |-> <<"h","t","t","p","s",":","/","/","w","w","w",".","b","o","o","k","i","n","g",".","e","x","a","m","p","l","e","/","c","h","a","t","a","-","6">>]
RowRelativeLink == [title |-> <<"C","h","a","t","a"," ","7">>, price |-> <<>>, location |-> <<>>, location2 |-> <<>>, description |-> <<>>, link |-> <<"c","h","a","t","a","-","7">>]
LinkRows == {RowFull, RowBare, RowHttpLink, RowForeignLink, RowRelativeLink}

SeqsUpTo(S, n) == UNION {[1..k -> S] : k \in 0..n}
SearchPages == SeqsUpTo(Rows, MaxRows)
LinkPages == SeqsUpTo(LinkRows, 2)
NarrowSearchPages == {<<>>, <<RowNoLink, RowFull, RowBare>>}

AnchorKrkonose == [href |-> <<"/","k","r","k","o","n","o","s","e">>, name |-> <<"K","r","k","o","n","o","U+0161","e">>, countText |-> <<"3","1","2">>]
AnchorKrkonoseAgain == [href |-> <<"/","k","r","k","o","n","o","s","e">>, name |-> <<"K","r","k","o","n","o","s","e"," ","2">>, countText |-> <<"7">>]
AnchorSumavaNone == [href |-> <<"/","s","u","m","a","v","a">>, name |-> <<"U+0160","u","m","a","v","a">>, countText |-> <<"0">>]
AnchorTerasa == [href |-> <<"/","t","e","r","a","s","a">>, name |-> <<"T","e","r","a","s","a">>, countText |-> <<"4","5"," ","o","b","j","e","k","t","U+016F">>]
AnchorUnknown == [href |-> <<"/","k","o","n","t","a","k","t">>, name |-> <<"K","o","n","t","a","k","t">>, countText |-> <<"3">>]
AnchorNameless == [href |-> <<"/","k","r","k","o","n","o","s","e">>, name |-> <<" ">>, countText |-> <<"1","2">>]
AnchorNegative == [href |-> <<"/","t","e","r","a","s","a">>, name |-> <<"T","e","r","a","s","a">>, countText |-> <<"-","4">>]
CatalogPages == {<<>>, <<AnchorKrkonose, AnchorTerasa>>, <<AnchorSumavaNone, AnchorUnknown, AnchorKrkonoseAgain, AnchorKrkonose, AnchorTerasa>>,
                 <<AnchorNegative, AnchorNameless, AnchorKrkonose, AnchorTerasa, AnchorKrkonoseAgain>>}
NarrowCatalogPages == {<<>>, <<AnchorKrkonoseAgain, AnchorTerasa, AnchorKrkonose>>}

DetailPagePlain == [tags |-> << <<"c","h","a","l","u","p","a"," ","1","4"," ","o","s","o","b">>, <<"4"," ","l","o","U+017E","n","i","c","e">> >>, vybaveniDesc |-> <<>>, defaultDesc |-> <<"C","h","a","l","u","p","a"," ","u"," ","l","e","s","a">>]
DetailPageLong == [tags |-> << <<"6"," ","o","s","o","b">>, <<"w","i","f","i">>, <<"m","a","x"," ","8"," ","o","s","o","b">> >>,
                   vybaveniDesc |-> Repeat("x", DescriptionLimit + 1), defaultDesc |-> <<>>]
DetailPageExact == [tags |-> << <<"2"," ","l","o","U+017E","n","i","c","e">>, <<"3"," "," ","l","o","U+017E","n","i","c","e"," ","a"," ","1","0"," ","o","s","o","b">> >>,
                    vybaveniDesc |-> <<" ">>, defaultDesc |-> Repeat("y", DescriptionLimit)]
DetailPages == {DetailPagePlain, DetailPageLong, DetailPageExact}

\* tools/call requests: every tool name and a name the server does not know, with
\* the arguments absent, empty, well typed and wrongly typed
ToolUnknown == <<"b","o","o","k","_","c","h","a","l","u","p","a">>
ToolNames == {ToolListRegions, ToolListFeatures, ToolSearchChalupy, ToolGetPropertyDetails, ToolUnknown}
With(key, value) == [EmptyObject EXCEPT ![key] = <<value>>]
SearchObjects ==
    { EmptyObject,
      With("region", JString(SlugKrkonose)), With("region", JString(SlugUpper)), With("region", JString(SlugTooLong)),
      With("region", JNumber(Fin(4))), With("region", JNull), With("query", JTrue), With("query", JString(QuerySauna)),
      With("features", JArray(<<JString(SlugTerasa), JString(SlugSauna)>>)), With("features", JArray(<<JString(SlugTerasa), JNumber(Fin(2))>>)),
      With("features", JString(SlugTerasa)),
      With("dateFrom", JString(DateJuly)), With("dateTo", JString(DateDotted)), With("dateFrom", JNumber(Fin(2))),
      With("persons", JNumber(Fin(8))), With("persons", JNumber(Fin(-2))), With("persons", JNumber(NaN)),
      With("persons", JString(<<"4">>)), With("priceMin", JNumber(PosInfinity)), With("priceMax", JTrue),
      With("maxResults", JNumber(Fin(0))), With("maxResults", JNumber(Fin(2))),
      With("maxResults", JNumber(Fin(2 * MaxResultsCeiling + 2))), With("maxResults", JString(<<"5">>)),
      [With("region", JNumber(Fin(4))) EXCEPT !["query"] = <<JTrue>>] }
DetailsObjects ==
    { EmptyObject, With("url", JString(UrlGood)), With("url", JString(UrlHttp)), With("url", JString(UrlEvil)),
      With("url", JString(UrlRelative)), With("url", JNumber(Fin(2))), With("url", JNull) }
Requests ==
    [name : ToolNames, arguments : {<<>>, <<EmptyObject>>}]
        \cup [name : {ToolSearchChalupy}, arguments : {<<a>> : a \in SearchObjects}]
        \cup [name : {ToolGetPropertyDetails}, arguments : {<<a>> : a \in DetailsObjects}]

\* --------------------------------------------------------- specifications

\* The four operations, called MaxCalls times in any order and overlap.
Next ==
    \/ \E c \in Calls, p \in NarrowParams : searchChalupy(c, p)
    \/ \E c \in Calls, u \in NarrowUrls : getPropertyDetails(c, u)
    \/ \E c \in Calls : listRegions(c)
    \/ \E c \in Calls : listFeatures(c)
    \/ \E c \in Calls : delayEnds(c)
    \/ \E c \in Calls, o \in NarrowOutcomes : fetchSettles(c, o)
    \/ \E c \in Calls : backoffEnds(c)
    \/ \E c \in Calls : bodyFails(c)
    \/ \E c \in Calls, rows \in NarrowSearchPages : searchBody(c, rows)
    \/ \E c \in Calls, page \in DetailPages : detailsBody(c, page)
    \/ \E c \in Calls, anchors \in NarrowCatalogPages : regionsBody(c, anchors)
    \/ \E c \in Calls, anchors \in NarrowCatalogPages : featuresBody(c, anchors)
    \/ \E d \in TickSteps : Tick(d)

Spec == Init /\ [][Next]_vars

\* listRegions and listFeatures, called MaxCalls times in any order and overlap,
\* while time passes; each fetch is answered on its first attempt or times out.
NextCache ==
    \/ \E c \in Calls : listRegions(c)
    \/ \E c \in Calls : listFeatures(c)
    \/ \E c \in Calls, o \in CacheOutcomes : fetchSettles(c, o)
    \/ \E c \in Calls : bodyFails(c)
    \/ \E c \in Calls, anchors \in NarrowCatalogPages : regionsBody(c, anchors)
    \/ \E c \in Calls, anchors \in NarrowCatalogPages : featuresBody(c, anchors)
    \/ \E d \in TickSteps : Tick(d)

SpecCache == Init /\ [][NextCache]_vars

\* One call of any operation, its arguments drawn from the wide inputs.
NextCall ==
    \/ \E p \in WideParams : searchChalupy(1, p)
    \/ \E u \in WideUrls : getPropertyDetails(1, u)
    \/ listRegions(1)
    \/ listFeatures(1)
    \/ delayEnds(1)
    \/ \E o \in NarrowOutcomes : fetchSettles(1, o)
    \/ backoffEnds(1)
    \/ bodyFails(1)
    \/ \E rows \in NarrowSearchPages : searchBody(1, rows)
    \/ \E page \in DetailPages : detailsBody(1, page)
    \/ \E anchors \in CatalogPages : regionsBody(1, anchors)
    \/ \E anchors \in CatalogPages : featuresBody(1, anchors)

SpecCall == Init /\ [][NextCall]_vars

\* One call of any operation with well-formed arguments, the page read drawn from
\* the wide pages; each fetch is answered on its first attempt or times out.
NextExtract ==
    \/ \E p \in ExtractParams : searchChalupy(1, p)
    \/ \E u \in NarrowUrls : getPropertyDetails(1, u)
    \/ listRegions(1)
    \/ listFeatures(1)
    \/ delayEnds(1)
    \/ \E o \in CacheOutcomes : fetchSettles(1, o)
    \/ bodyFails(1)
    \/ \E rows \in SearchPages : searchBody(1, rows)
    \/ \E page \in DetailPages : detailsBody(1, page)
    \/ \E anchors \in CatalogPages : regionsBody(1, anchors)
    \/ \E anchors \in CatalogPages : featuresBody(1, anchors)

SpecExtract == Init /\ [][NextExtract]_vars

\* One call of any operation, its fetch attempts ending in every way.
NextFetch ==
    \/ \E p \in NarrowParams : searchChalupy(1, p)
    \/ \E u \in NarrowUrls : getPropertyDetails(1, u)
    \/ listRegions(1)
    \/ listFeatures(1)
    \/ delayEnds(1)
    \/ \E o \in WideOutcomes : fetchSettles(1, o)
    \/ backoffEnds(1)
    \/ bodyFails(1)
    \/ \E rows \in NarrowSearchPages : searchBody(1, rows)
    \/ \E page \in DetailPages : detailsBody(1, page)
    \/ \E anchors \in CatalogPages : regionsBody(1, anchors)
    \/ \E anchors \in CatalogPages : featuresBody(1, anchors)

SpecFetch == Init /\ [][NextFetch]_vars

\* One tools/call request of any kind, handled to its end.
NextTool ==
    \/ \E req \in Requests : callTool(1, req)
    \/ delayEnds(1)
    \/ \E o \in WideOutcomes : fetchSettles(1, o)
    \/ backoffEnds(1)
    \/ bodyFails(1)
    \/ \E rows \in NarrowSearchPages : searchBody(1, rows)
    \/ \E page \in DetailPages : detailsBody(1, page)
    \/ \E anchors \in NarrowCatalogPages : regionsBody(1, anchors)
    \/ \E anchors \in NarrowCatalogPages : featuresBody(1, anchors)
    \/ toolReturns(1)

SpecTool == Init /\ [][NextTool]_vars

\* A search, and then the details of the listings it returned.
NextFollow ==
    \/ \E p \in NarrowParams : searchChalupy(1, p)
    \/ \E c \in Calls : delayEnds(c)
    \/ \E c \in Calls, o \in NarrowOutcomes : fetchSettles(c, o)
    \/ \E c \in Calls : backoffEnds(c)
    \/ \E c \in Calls : bodyFails(c)
    \/ \E rows \in LinkPages : searchBody(1, rows)
    \/ \E c \in Calls : followListing(c)
    \/ \E c \in Calls, page \in DetailPages : detailsBody(c, page)

SpecFollow == Init /\ [][NextFollow]_vars

\* searchChalupy called MaxCalls times, in any order and overlap, with and without a
\* query and a limit, each call reading one of two pages.
PairParams ==
    {[NoParams EXCEPT !.query = q, !.maxResults = m] : q \in {<<>>, <<QuerySauna>>, <<QueryUpper>>}, m \in {<<>>, <<Fin(2)>>}}
PairPages == {<<RowOther, RowFull, RowBare>>, <<RowFull, RowOther, RowBare>>}
NextPair ==
    \/ \E c \in Calls, p \in PairParams : searchChalupy(c, p)
    \/ \E c \in Calls : delayEnds(c)
    \/ \E c \in Calls : fetchSettles(c, Status(200))
    \/ \E c \in Calls, rows \in PairPages : searchBody(c, rows)

SpecPair == Init /\ [][NextPair]_vars

\* searchChalupy called MaxCalls times, in any order and overlap, up to the request
\* it makes: the parameters vary in what goes into the path and the query string.
PathParams ==
    {[NoParams EXCEPT !.region = r, !.features = f] :
        r \in {<<>>, <<SlugKrkonose>>},
        f \in {<<>>, << <<>> >>, << <<SlugTerasa>> >>, << <<SlugTerasa, SlugSauna>> >>, << <<SlugTerasa, SlugSlash>> >>}}
QueryStringParams ==
    {[NoParams EXCEPT !.persons = a, !.dateFrom = <<DateJuly>>, !.dateTo = <<DateLeapDay>>, !.priceMin = b, !.priceMax = c] :
        a \in {<<>>, <<Fin(0)>>, <<Fin(8)>>}, b \in {<<>>, <<Fin(0)>>, <<Fin(1)>>}, c \in {<<>>, <<Fin(0)>>, <<Fin(2400)>>}}
NextUrl ==
    \/ \E c \in Calls, p \in PathParams \cup QueryStringParams : searchChalupy(c, p)
    \/ \E c \in Calls : delayEnds(c)

SpecUrl == Init /\ [][NextUrl]_vars

\* One call, as SpecFetch, with the scheduling the runtime gives: a timer that was
\* set fires, and every fetch attempt resolves, rejects or is aborted.
SpecFetchFair ==
    /\ Init /\ [][NextFetch]_vars
    /\ WF_vars(delayEnds(1))
    /\ WF_vars(\E o \in WideOutcomes : fetchSettles(1, o))
    /\ WF_vars(backoffEnds(1))

\* ---------------------------------------------------------------- claims

\* the call made no fetch attempt
NoFetchAttempt(c) == \A k \in DOMAIN trace[c] : trace[c][k].t # "attempt"
\* the call threw a parameter error before any delay or fetch attempt
RejectedParameter(c) ==
    pc[c] = "done" /\ ~result[c].ok /\ result[c].kind = "InvalidParameter" /\ trace[c] = <<>> /\ NoFetchAttempt(c)

\* C1: a searchChalupy call whose parameters pass validation never returns more
\* listings than maxResults (10 when maxResults is omitted).
C1_AtMostMaxResults ==
    \A c \in Calls :
        (op[c] = "search" /\ pc[c] = "done" /\ result[c].ok) =>
            LET m == args[c].params.maxResults
            IN IF m = <<>> THEN Len(result[c].value) <= DefaultMaxResults
               ELSE 2 * Len(result[c].value) <= m[1].h

\* a string of 1 to 50 characters drawn from a-z, 0-9 and "-"
IsSlug(s) == Len(s) \in 1..MaxSlugLength /\ \A i \in DOMAIN s : s[i] \in SlugChars
BadSlugSupplied(p) ==
    \/ p.region # <<>> /\ ~IsSlug(p.region[1])
    \/ p.features # <<>> /\ \E i \in DOMAIN p.features[1] : ~IsSlug(p.features[1][i])

\* C2: a searchChalupy call whose region, or one of whose features, is supplied and
\* is no slug (the empty string included) fails with a parameter error without any
\* fetch attempt.
C2_BadSlugRejected ==
    \A c \in Calls : (op[c] = "search" /\ BadSlugSupplied(args[c].params)) => RejectedParameter(c)

BadNumber(f) == f # <<>> /\ (f[1].k # "fin" \/ f[1].h < 0)
BadNumberSupplied(p) ==
    \/ BadNumber(p.persons) \/ BadNumber(p.priceMin) \/ BadNumber(p.priceMax) \/ BadNumber(p.maxResults)
    \/ p.maxResults # <<>> /\ p.maxResults[1].k = "fin" /\ p.maxResults[1].h > 2 * MaxResultsCeiling

\* C3: a searchChalupy call with a supplied persons, priceMin, priceMax or maxResults
\* that is not finite or is negative, or with maxResults above 100, fails with a
\* parameter error before any fetch attempt.
C3_BadNumberRejected ==
    \A c \in Calls : (op[c] = "search" /\ BadNumberSupplied(args[c].params)) => RejectedParameter(c)

\* C3 witness: calls with a NaN, an infinite, a negative number and maxResults just
\* above 100 exist and were rejected (one per run; each input is reached)
C3_Witness ==
    \E c \in Calls :
        /\ op[c] = "search" /\ RejectedParameter(c)
        /\ args[c].params.region = <<>> /\ args[c].params.features = <<>>
        /\ args[c].params.dateFrom = <<>> /\ args[c].params.dateTo = <<>>
        /\ args[c].params.persons = <<>> /\ args[c].params.priceMin = <<>>
        /\ args[c].params.priceMax = <<PosInfinity>>
        /\ args[c].params.maxResults = <<Fin(2 * MaxResultsCeiling + 1)>>

DaysInMonth(year, month) ==
    IF month = 2
    THEN (IF (year % 4 = 0 /\ year % 100 # 0) \/ year % 400 = 0 THEN 29 ELSE 28)
    ELSE IF month \in {4, 6, 9, 11} THEN 30 ELSE 31
\* the string has the form YYYY-MM-DD and names a day of the calendar
IsCalendarDate(date) ==
    /\ datePattern(date)
    /\ LET year == DigitsValue(SubSeq(date, 1, 4), 0)
           month == DigitsValue(SubSeq(date, 6, 7), 0)
           day == DigitsValue(SubSeq(date, 9, 10), 0)
       IN month \in 1..12 /\ day \in 1..DaysInMonth(year, month)
BadDateSupplied(p) ==
    \/ p.dateFrom # <<>> /\ ~IsCalendarDate(p.dateFrom[1])
    \/ p.dateTo # <<>> /\ ~IsCalendarDate(p.dateTo[1])

\* C4: a searchChalupy call whose dateFrom or dateTo is supplied and is not of the
\* form YYYY-MM-DD, or names no real calendar date, fails with a parameter error and
\* performs no fetch.
C4_BadDateRejected ==
    \A c \in Calls : (op[c] = "search" /\ BadDateSupplied(args[c].params)) => RejectedParameter(c)

\* the string parses as an absolute URL with scheme https and host www.e-chalupy.cz
IsAllowedUrl(url) ==
    /\ ParseUrl(url).ok
    /\ ParseUrl(url).hostname = ALLOWED_HOSTNAME
    /\ ParseUrl(url).protocol = HttpsProtocol

\* C5: getPropertyDetails with a string that is no absolute URL, or whose host is not
\* www.e-chalupy.cz, or whose scheme is not https, fails with a URL error and takes
\* neither the politeness delay nor any fetch attempt.
C5_BadUrlRejected ==
    \A c \in Calls :
        (op[c] = "details" /\ ~IsAllowedUrl(args[c].url)) =>
            pc[c] = "done" /\ ~result[c].ok /\ result[c].kind = "InvalidUrl" /\ trace[c] = <<>> /\ target[c] = <<>>

\* C5 witness: the http:// URL on the right host was rejected
C5_Witness ==
    \E c \in Calls : op[c] = "details" /\ args[c].url = UrlHttp /\ pc[c] = "done" /\ result[c].kind = "InvalidUrl"

\* C6: every URL handed to the fetch layer has scheme https and host www.e-chalupy.cz.
C6_FetchedAllowedHost == \A url \in fetched : IsAllowedUrl(url)

\* C6 witness: a search URL with a path and a query string was handed to the fetch layer
C6_Witness ==
    \E c \in Calls :
        /\ op[c] = "search" /\ target[c] \in fetched
        /\ args[c].params.region = <<SlugKrkonose>> /\ args[c].params.persons = <<Fin(8)>>

IsCatalogCall(c) == op[c] \in {"regions", "features"}
\* the call handed the catalog URL to fetchWithRetry
CatalogFetch(c) == \E k \in DOMAIN trace[c] : trace[c][k].t = "attempt"
Apart(c, d) == IF issued[c] >= issued[d] THEN issued[c] - issued[d] ELSE issued[d] - issued[c]

\* C7: two listRegions calls (or two listFeatures calls) issued within one TTL window,
\* in any order or overlap, cause at most one catalog fetch between them, and a call
\* issued after the TTL of the cached entry has elapsed causes a new fetch.
C7_OneFetchPerWindow ==
    /\ \A c, d \in Calls :
           (c # d /\ IsCatalogCall(c) /\ op[d] = op[c] /\ Apart(c, d) <= CACHE_TTL_MS)
               => ~(CatalogFetch(c) /\ CatalogFetch(d))
    /\ \A c \in Calls : (IsCatalogCall(c) /\ seen[c] = "expired") => CatalogFetch(c)

\* what Cache.get owes at a read: entry is the slot before the read, entryAfter the
\* slot after it, last the entry of the last Cache.set, pcAfter and resultAfter what
\* the caller did with the value (it fetches on absent, returns the sequence otherwise)
GetContract(entry, entryAfter, last, pcAfter, resultAfter) ==
    IF entry = <<>> THEN entryAfter = <<>> /\ pcAfter = "fetch"
    ELSE IF now - entry[1].timestamp > CACHE_TTL_MS
    THEN entryAfter = <<>> /\ pcAfter = "fetch"
    ELSE /\ entryAfter = entry
         /\ pcAfter = "done" /\ resultAfter.ok
         /\ last # <<>> /\ resultAfter.value = last[1].data

\* C8: Cache.get returns absent and leaves the slot empty when the stored timestamp is
\* more than one hour older than the read time; otherwise it returns exactly the
\* sequence last written and leaves the slot unchanged.
C8_CacheGetContract ==
    [][\A c \in Calls :
          (pc[c] = "idle" /\ pc'[c] # "idle") =>
              /\ op'[c] = "regions" =>
                     GetContract(regionsCache, regionsCache', written.regions, pc'[c], result'[c])
              /\ op'[c] = "features" =>
                     GetContract(featuresCache, featuresCache', written.features, pc'[c], result'[c])]_vars

\* C8 witness: a listRegions call met an entry older than the TTL, left the slot
\* empty and went on to fetch
C8_Witness ==
    \E c \in Calls : op[c] = "regions" /\ seen[c] = "expired" /\ pc[c] = "fetch" /\ regionsCache = <<>>

\* the number of fetch attempts among the first k events of a call
AttemptsUpTo(c, k) == Cardinality({j \in 1..k : trace[c][j].t = "attempt"})
IsErrorStatus(e) == e.t = "status" /\ e.code \notin 200..299

\* C9: in fetchWithRetry a 5xx response is retried when attempts remain, and any
\* other non-2xx response makes the call fail at once, with the status code in the
\* error and without a further attempt.
C9_OnlyServerErrorsRetried ==
    \A c \in Calls : \A k \in DOMAIN trace[c] :
        IsErrorStatus(trace[c][k]) =>
            IF trace[c][k].code \in 500..599
            THEN AttemptsUpTo(c, k) <= DefaultRetries => (k < Len(trace[c]) /\ trace[c][k + 1].t = "backoff")
            ELSE /\ k = Len(trace[c])
                 /\ pc[c] = "done" /\ ~result[c].ok
                 /\ Includes(result[c].msg, IntToString(trace[c][k].code))

InFetchWithRetry(c) == pc[c] \in {"fetch", "backoff"}
FetchWithRetryEnded(c) == pc[c] \in {"text", "done"}
LastEvent(c) == trace[c][Len(trace[c])]

\* what fetchWithRetry has done so far in the call: at most retries+1 attempts; a
\* return only of a 2xx response; a throw only with an error
FetchWithRetryOutcome(c) ==
    /\ AttemptsUpTo(c, Len(trace[c])) <= DefaultRetries + 1
    /\ pc[c] = "text" => (LastEvent(c).t = "status" /\ LastEvent(c).code \in 200..299)
    /\ (pc[c] = "done" /\ AttemptsUpTo(c, Len(trace[c])) > 0 /\ ~result[c].ok)
           => (result[c].kind \in {"HttpStatus", "Network", "Timeout", "Body"} /\ result[c].msg # <<>>)
    /\ (pc[c] = "done" /\ AttemptsUpTo(c, Len(trace[c])) > 0 /\ result[c].ok)
           => \E k \in DOMAIN trace[c] : trace[c][k].t = "status" /\ trace[c][k].code \in 200..299

\* C11: when every fetch attempt eventually resolves, rejects or is aborted,
\* fetchWithRetry makes at most retries+1 attempts (3) and always ends, by returning
\* a response with a 2xx status or by throwing an error; it never returns a non-2xx
\* response as success.
C11_FetchWithRetryEnds ==
    /\ [](\A c \in Calls : FetchWithRetryOutcome(c))
    /\ \A c \in Calls : InFetchWithRetry(c) ~> FetchWithRetryEnded(c)

\* C11 witness: three attempts were answered 503 and the call threw the HTTP error
C11_Witness ==
    \E c \in Calls :
        /\ pc[c] = "done" /\ ~result[c].ok /\ result[c].kind = "HttpStatus"
        /\ AttemptsUpTo(c, Len(trace[c])) = DefaultRetries + 1
        /\ LastEvent(c) = Status(503)

\* C12: in each of the four operations, whenever the operation issues its first
\* fetch attempt, a politeness delay has been taken in that operation before it.
C12_DelayBeforeFirstFetch ==
    \A c \in Calls : \A k \in DOMAIN trace[c] :
        (trace[c][k].t = "attempt" /\ AttemptsUpTo(c, k) = 1)
            => \E j \in 1..(k - 1) : trace[c][j].t = "delay"

\* C13: for every tools/call request, with any tool name and with arguments present,
\* absent or wrongly typed, the handler returns a response and never throws.
C13_HandlerNeverThrows == \A c \in Calls : response[c].t # "thrown"

\* the call's operation failed for a reason other than a parameter, URL, HTTP status
\* or timeout error: the transport or the reading of the body failed
InternalFailure(c) == op[c] # "none" /\ pc[c] = "done" /\ ~result[c].ok /\ result[c].kind \in {"Network", "Body"}

\* C14: for an internal failure raised while an operation runs, the flagged error
\* response carries the generic unexpected-error message and none of the internal
\* message text.
C14_InternalFailureGeneric ==
    \A c \in Calls :
        (response[c].t = "result" /\ InternalFailure(c)) =>
            (response[c].isError /\ response[c].text = ErrorPrefix \o GenericMessage)

\* the url of the getPropertyDetails call is the url field of a listing that a
\* searchChalupy call returned
UrlFromListing(c) ==
    \E d \in Calls :
        /\ op[d] = "search" /\ pc[d] = "done" /\ result[d].ok
        /\ \E i \in DOMAIN result[d].value : result[d].value[i].url = args[c].url

\* C15: the url field of every listing that searchChalupy returns is accepted by the
\* URL safety gate when it is passed to getPropertyDetails, whatever link the source
\* row contained.
C15_ListingUrlAccepted ==
    \A c \in Calls :
        (op[c] = "details" /\ UrlFromListing(c)) => ~(pc[c] = "done" /\ ~result[c].ok /\ result[c].kind = "InvalidUrl")

HasStatus2xx(c) == \E k \in DOMAIN trace[c] : trace[c][k].t = "status" /\ trace[c][k].code \in 200..299
\* the stage at which a failed call failed, and what ran before it: validation and
\* the URL gate fail before any delay or fetch, the fetch fails before any body is
\* read, the extraction fails after a 2xx response
FailedInStage(c) ==
    CASE result[c].kind \in {"InvalidParameter", "InvalidUrl"} -> trace[c] = <<>> /\ target[c] = <<>>
      [] result[c].kind \in {"HttpStatus", "Network", "Timeout"} ->
             /\ ~HasStatus2xx(c)
             /\ LastEvent(c).t \in {"status", "neterr", "abort"}
      [] result[c].kind = "Body" -> LastEvent(c).t = "status" /\ LastEvent(c).code \in 200..299
      [] OTHER -> FALSE
\* the call has no outcome before it ends, and ends with a result or with an error
OneOutcome(c) ==
    /\ pc[c] # "done" => (~result[c].ok /\ result[c].kind = "none")
    /\ (pc[c] = "done" /\ op[c] # "none") =>
           IF result[c].ok
           THEN result[c].kind = "none" /\ result[c].msg = <<>>
           ELSE result[c].msg # <<>> /\ result[c].value = <<>> /\ FailedInStage(c)
\* nothing of an ended call runs any more
EndedStays(c) ==
    pc[c] = "done" =>
        /\ pc'[c] = "done" /\ op'[c] = op[c] /\ trace'[c] = trace[c]
        /\ target'[c] = target[c] /\ result'[c].ok = result[c].ok /\ result'[c].kind = result[c].kind

\* C16: each operation ends in exactly one of two outcomes, a complete result or an
\* error; once a stage (validation, URL gate, fetch, extraction) fails, no later
\* stage of the operation runs and no record is returned.
C16_ResultOrError ==
    /\ [](\A c \in Calls : OneOutcome(c))
    /\ [][\A c \in Calls : EndedStays(c)]_vars

\* C16 witness: a search failed at the extraction stage, after a 200 response
C16_Witness ==
    \E c \in Calls :
        /\ op[c] = "search" /\ pc[c] = "done" /\ ~result[c].ok /\ result[c].kind = "Body"
        /\ HasStatus2xx(c) /\ result[c].value = <<>>

\* the search call read a page and ended
SearchRead(c) == op[c] = "search" /\ pc[c] = "done" /\ bodyRead[c] # <<>>
HasTitleAndLink(row) == Trim(row.title) # <<>> /\ row.link # <<>>
\* the positions of the rows of a page that have a title and a link, and the j-th of them
ValidRows(rows) == {i \in DOMAIN rows : HasTitleAndLink(rows[i])}
NthValidRow(rows, j) == CHOOSE i \in ValidRows(rows) : Cardinality({k \in ValidRows(rows) : k <= i}) = j
\* neither the query filter nor the limit takes a listing away
Unfiltered(c) == args[c].params.query = <<>> /\ args[c].params.maxResults = <<>>

\* C17: in the search extractor a row without a title or without a detail link
\* produces no listing and no error; a row with title and link gets the fixed price
\* placeholder when it has no price and the fixed location placeholder when it has
\* no location, and the operation still succeeds.
C17_RowsWithoutFields ==
    \A c \in Calls :
        SearchRead(c) =>
            /\ result[c].ok
            /\ Unfiltered(c) =>
                   LET rows == bodyRead[c][1]
                       listings == result[c].value
                   IN /\ Len(listings) = Cardinality(ValidRows(rows))
                      /\ \A j \in DOMAIN listings :
                             LET row == rows[NthValidRow(rows, j)]
                             IN /\ listings[j].title = Trim(row.title)
                                /\ listings[j].price = (IF Trim(row.price) = <<>> THEN PricePlaceholder ELSE Trim(row.price))
                                /\ Trim(row.location) = <<>> => listings[j].location = LocationPlaceholder
                                /\ Trim(row.location) # <<>> => startsWith(listings[j].location, Trim(row.location))

\* C17 witness: a page with a row without link, a row without title and a row with
\* neither price nor location gave one listing, with both placeholders
C17_Witness ==
    \E c \in Calls :
        /\ SearchRead(c) /\ Unfiltered(c) /\ result[c].ok
        /\ bodyRead[c][1] = <<RowNoLink, RowNoTitle, RowBare>>
        /\ Len(result[c].value) = 1
        /\ result[c].value[1].price = PricePlaceholder /\ result[c].value[1].location = LocationPlaceholder

\* the listings extracted from the page the call read, before the query filter
Extracted(c) == collectListings(bodyRead[c][1], 0, effectiveMaxResults(args[c].params))
\* the lower-cased query is a substring of the lower-cased title, description or location
QueryMatches(listing, query) ==
    \E field \in {listing.title, listing.description, listing.location} :
        Includes(toLowerCase(field), toLowerCase(query))
NonEmptyQuery(c) == args[c].params.query # <<>> /\ args[c].params.query[1] # <<>>

\* C18: with a non-empty query, searchChalupy returns exactly those extracted
\* listings, in their order, for which the lower-cased query is a substring of the
\* lower-cased title, description or location, and no others.
C18_QueryFilter ==
    \A c \in Calls :
        (SearchRead(c) /\ NonEmptyQuery(c)) =>
            LET listings == Extracted(c)
                hits == {j \in DOMAIN listings : QueryMatches(listings[j], args[c].params.query[1])}
                NthHit(k) == CHOOSE j \in hits : Cardinality({i \in hits : i <= j}) = k
            IN /\ result[c].ok
               /\ Len(result[c].value) = Cardinality(hits)
               /\ \A k \in DOMAIN result[c].value : result[c].value[k] = listings[NthHit(k)]

\* C18 witness: the query SAUNA kept the listing with Sauna in its title and the one
\* with Sauna in its description and dropped the one between them
C18_Witness ==
    \E c \in Calls :
        /\ SearchRead(c) /\ args[c].params.query = <<QueryUpper>> /\ args[c].params.maxResults = <<>>
        /\ bodyRead[c][1] = <<RowFull, RowOther, RowBare>>
        /\ Len(result[c].value) = 2
        /\ result[c].value[1].title = Trim(RowFull.title) /\ result[c].value[2].title = Trim(RowBare.title)

\* the details call read a page and returned its record
DetailsRead(c) == op[c] = "details" /\ pc[c] = "done" /\ result[c].ok /\ bodyRead[c] # <<>>
\* the number in the first tag, in document order, that matches the pattern of word
FirstMatch(tags, word) ==
    LET hits == {i \in DOMAIN tags : matchCount(Trim(tags[i]), word) # <<>>}
    IN IF hits = {} THEN <<>>
       ELSE matchCount(Trim(tags[CHOOSE i \in hits : \A j \in hits : i <= j]), word)

\* C19: in the detail extractor, capacity (bedrooms) is taken from the first tag in
\* document order that matches the persons (bedrooms) pattern; later matching tags
\* do not overwrite it.
C19_FirstTagWins ==
    \A c \in Calls :
        DetailsRead(c) =>
            /\ result[c].value.capacity = FirstMatch(bodyRead[c][1].tags, StrOsob)
            /\ result[c].value.bedrooms = FirstMatch(bodyRead[c][1].tags, StrLoznic)

\* C20: the detail record's description equals the full description when that has at
\* most 200 characters, and otherwise its first 200 characters followed by an
\* ellipsis; the ellipsis is there if and only if the full description is longer
\* than 200 characters.
C20_ShortDescription ==
    \A c \in Calls :
        DetailsRead(c) =>
            LET full == result[c].value.fullDescription
                short == result[c].value.description
            IN /\ full = (IF Trim(bodyRead[c][1].vybaveniDesc) # <<>>
                          THEN Trim(bodyRead[c][1].vybaveniDesc) ELSE Trim(bodyRead[c][1].defaultDesc))
               /\ Len(full) <= DescriptionLimit => short = full
               /\ Len(full) > DescriptionLimit =>
                      /\ Len(short) = DescriptionLimit + Len(Ellipsis)
                      /\ SubSeq(short, 1, DescriptionLimit) = SubSeq(full, 1, DescriptionLimit)
                      /\ SubSeq(short, DescriptionLimit + 1, Len(short)) = Ellipsis

\* C20 witness: a description of exactly 200 characters was returned whole, without
\* ellipsis
C20_Witness ==
    \E c \in Calls :
        /\ DetailsRead(c) /\ bodyRead[c][1] = DetailPageExact
        /\ Len(result[c].value.fullDescription) = DescriptionLimit
        /\ result[c].value.description = result[c].value.fullDescription

\* the catalog call read a page and ended
CatalogRead(c) == op[c] \in {"regions", "features"} /\ pc[c] = "done" /\ bodyRead[c] # <<>>
AllowList(c) == IF op[c] = "regions" THEN czechRegions ELSE featureSlugs
SlugOf(a) == IF a.href = <<>> THEN <<>> ELSE Tail(a.href)
CountOf(a) == parseIntOrZero(Trim(a.countText))
\* the anchor links to a slug of the allow-list, has a name and a positive count
Qualifies(a, allowed) ==
    startsWith(a.href, <<"/">>) /\ SlugOf(a) \in Range(allowed) /\ Trim(a.name) # <<>> /\ CountOf(a) > 0
\* the positions of the anchors that qualify and whose slug no earlier qualifying
\* anchor has
FirstQualifying(anchors, allowed) ==
    {i \in DOMAIN anchors :
        /\ Qualifies(anchors[i], allowed)
        /\ \A j \in 1..(i - 1) : ~(Qualifies(anchors[j], allowed) /\ SlugOf(anchors[j]) = SlugOf(anchors[i]))}

\* C21: the region and feature catalog extractors return only records whose slug is
\* in the allow-list and whose count is positive, no slug twice, and the record of a
\* slug is that of its first qualifying anchor in document order.
C21_CatalogFirstQualifying ==
    \A c \in Calls :
        CatalogRead(c) =>
            LET anchors == bodyRead[c][1]
                records == result[c].value
                firsts == FirstQualifying(anchors, AllowList(c))
                Nth(k) == CHOOSE i \in firsts : Cardinality({j \in firsts : j <= i}) = k
            IN /\ result[c].ok
               /\ \A k \in DOMAIN records : records[k].slug \in Range(AllowList(c)) /\ records[k].count > 0
               /\ \A k, l \in DOMAIN records : records[k].slug = records[l].slug => k = l
               /\ Len(records) = Cardinality(firsts)
               /\ \A k \in DOMAIN records :
                      /\ records[k].slug = SlugOf(anchors[Nth(k)])
                      /\ records[k].name = Trim(anchors[Nth(k)].name)
                      /\ records[k].count = CountOf(anchors[Nth(k)])

\* C21 witness: listRegions read a page on which krkonose occurs without a name, then
\* with 312 and then with 7 chalets, and returned the one record with 312
C21_Witness ==
    \E c \in Calls :
        /\ CatalogRead(c) /\ op[c] = "regions"
        /\ bodyRead[c][1] = <<AnchorNegative, AnchorNameless, AnchorKrkonose, AnchorTerasa, AnchorKrkonoseAgain>>
        /\ Len(result[c].value) = 1 /\ result[c].value[1].count = 312

\* the events of the call before its k-th, and the event that is its k-th
IsAttempt(c, k) == trace[c][k].t = "attempt"
EndsAttempt(e) == e.t \in {"status", "neterr", "abort"}

\* C22: in fetchWithRetry every attempt after the first, whether it follows a 500
\* response or a thrown failure, comes right after a backoff delay of 1000 to 3000 ms
\* that was taken after the previous attempt ended; no backoff delay comes before
\* the first attempt.
C22_BackoffBeforeRetry ==
    \A c \in Calls : \A k \in DOMAIN trace[c] :
        IsAttempt(c, k) =>
            IF AttemptsUpTo(c, k) = 1
            THEN \A j \in 1..(k - 1) : trace[c][j].t # "backoff"
            ELSE /\ k > 3
                 /\ trace[c][k - 1].t = "backoff" /\ trace[c][k - 1].code \in BackoffMin..BackoffMax
                 /\ EndsAttempt(trace[c][k - 2])
                 /\ IsAttempt(c, k - 3)

\* C22 witness: a second attempt followed a 500 response after the shortest backoff,
\* and a third followed a rejected fetch after the longest
C22_Witness ==
    \E c \in Calls :
        /\ Len(trace[c]) >= 7
        /\ SubSeq(trace[c], Len(trace[c]) - 6, Len(trace[c])) =
               <<Event("attempt"), Status(500), [t |-> "backoff", code |-> BackoffMin],
                 Event("attempt"), Event("neterr"), [t |-> "backoff", code |-> BackoffMax], Event("attempt")>>

\* the call was made by a search_chalupy request and its validation block threw
ValidationFailedInTool(c) ==
    /\ request[c] # <<>> /\ request[c][1].name = ToolSearchChalupy
    /\ op[c] = "search" /\ pc[c] = "done" /\ ~result[c].ok /\ result[c].kind = "InvalidParameter"

\* C23: when search_chalupy is invoked through the handler with a parameter that
\* fails validation, the flagged error response carries that validation failure's
\* own message, which names the offending field, not the generic message.
C23_ValidationMessageKept ==
    \A c \in Calls :
        (ValidationFailedInTool(c) /\ response[c].t = "result") =>
            /\ response[c].isError
            /\ response[c].text = ErrorPrefix \o result[c].msg
            /\ response[c].text # ErrorPrefix \o GenericMessage

\* the limit the caller asked for: maxResults when it is a whole number, 10 when it
\* is omitted
WholeLimit(c) == args[c].params.maxResults = <<>> \/ args[c].params.maxResults[1].h % 2 = 0
LimitAsked(c) == IF args[c].params.maxResults = <<>> THEN DefaultMaxResults ELSE args[c].params.maxResults[1].h \div 2
Min(a, b) == IF a <= b THEN a ELSE b

\* C24: without a query, searchChalupy returns the rows that have both title and
\* link, in document order, cut to the first maxResults of them; a dropped row
\* neither removes nor displaces a valid row, so a page with at least maxResults
\* valid rows yields exactly maxResults listings.
C24_DroppedRowsDoNotCount ==
    \A c \in Calls :
        (SearchRead(c) /\ result[c].ok /\ args[c].params.query = <<>> /\ WholeLimit(c)) =>
            LET rows == bodyRead[c][1]
                n == Min(LimitAsked(c), Cardinality(ValidRows(rows)))
            IN /\ Len(result[c].value) = n
               /\ \A j \in 1..n : result[c].value[j] = listingOf(rows[NthValidRow(rows, j)])

RECURSIVE IsSubsequence(_, _)
\* s is t with some of its elements left out, the others in their order
IsSubsequence(s, t) ==
    IF s = <<>> THEN TRUE
    ELSE IF t = <<>> THEN FALSE
    ELSE IF Head(s) = Head(t) THEN IsSubsequence(Tail(s), Tail(t))
    ELSE IsSubsequence(s, Tail(t))
\* call c has a query, call d has none, and they have the same other parameters and
\* read the same page
SameButQuery(c, d) ==
    /\ SearchRead(c) /\ SearchRead(d) /\ result[c].ok /\ result[d].ok
    /\ NonEmptyQuery(c) /\ args[d].params.query = <<>>
    /\ args[d].params = [args[c].params EXCEPT !.query = <<>>]
    /\ bodyRead[c] = bodyRead[d]

\* C25: the query never influences the target URL or the fetch: for the same other
\* parameters and the same page, the result with a query is an order-preserving
\* sub-sequence of the result without it, got by filtering the already capped list.
C25_QueryFiltersCappedList ==
    \A c, d \in Calls :
        /\ (op[c] = "search" /\ op[d] = "search" /\ args[d].params = [args[c].params EXCEPT !.query = <<>>]
                /\ target[c] # <<>> /\ target[d] # <<>>)
               => target[c] = target[d]
        /\ SameButQuery(c, d) =>
               LET Match(l) == QueryMatches(l, args[c].params.query[1])
               IN /\ IsSubsequence(result[c].value, result[d].value)
                  /\ result[c].value = filterSeq(result[d].value, Match)
                  /\ trace[c] = trace[d]

\* C25 witness: with a limit of 1 and the same page, the call without a query
\* returned the first row and the call with the query sauna returned nothing,
\* although a later row of the page has a sauna
C25_Witness ==
    \E c, d \in Calls :
        /\ SameButQuery(c, d)
        /\ args[c].params.maxResults = <<Fin(2)>> /\ bodyRead[c][1] = <<RowOther, RowFull, RowBare>>
        /\ Len(result[d].value) = 1 /\ result[c].value = <<>>
        /\ target[c] = BASE_URL \o DefaultSearchPath

\* the catalog call ended with an error
CatalogFailed(c) == IsCatalogCall(c) /\ pc[c] = "done" /\ ~result[c].ok
\* the call took the step
StepOf(c) == pc'[c] # pc[c]

\* C26 as stated: when listRegions or listFeatures fails, its cache slot is exactly
\* as it was before the call: the call has done nothing to either slot.
C26_FailedCallLeavesSlot == \A c \in Calls : CatalogFailed(c) => touched[c] = <<>>

\* what a failed call may have done to the slots: its initial Cache.get removed an
\* entry of its own catalog that was older than the TTL, and nothing else
OnlyInvalidated(c) ==
    \/ touched[c] = <<>>
    \/ touched[c] = <<Cleared(op[c])>> /\ seen[c] = "expired"
\* a Cache.set is made by a call that got a 2xx response and extracted its page
SetAfterSuccess(c) ==
    \A k \in DOMAIN touched[c] :
        touched[c][k].how = "set" =>
            /\ touched[c][k].cache = op[c] /\ result[c].ok /\ HasStatus2xx(c) /\ bodyRead[c] # <<>>
\* a step changes a slot only as a recorded act of the call that takes it, and a
\* call changes only the slot of its own catalog
SlotsFramed ==
    /\ regionsCache' # regionsCache => \E c \in Calls : StepOf(c) /\ op'[c] = "regions" /\ Len(touched'[c]) = Len(touched[c]) + 1
    /\ featuresCache' # featuresCache => \E c \in Calls : StepOf(c) /\ op'[c] = "features" /\ Len(touched'[c]) = Len(touched[c]) + 1
    /\ \A c \in Calls : (StepOf(c) /\ pc[c] # "idle" /\ ~(pc[c] = "text" /\ result'[c].ok))
                             => UNCHANGED <<regionsCache, featuresCache>>

\* C26 amended: a failed listRegions or listFeatures has made no cache write; its own
\* slot is as the call found it, except that an entry older than the TTL was removed
\* by the call's initial read; the other catalog's slot is untouched; a cache write
\* happens only after a successful fetch and extraction.
C26_FailedCallOnlyInvalidates ==
    /\ [](\A c \in Calls : (CatalogFailed(c) => OnlyInvalidated(c)) /\ SetAfterSuccess(c))
    /\ [][SlotsFramed]_vars

\* C26 witness: a listRegions call met an entry older than the TTL, failed at its
\* fetch, and the slot that had held the entry is empty
C26_Witness ==
    \E c \in Calls :
        /\ CatalogFailed(c) /\ op[c] = "regions" /\ seen[c] = "expired"
        /\ touched[c] = <<Cleared("regions")>> /\ regionsCache = <<>> /\ written.regions # <<>>

\* the listRegions call returned / fetched and extracted a page itself
RegionsReturned(c) == op[c] = "regions" /\ pc[c] = "done" /\ result[c].ok
RegionsExtracted(c) == RegionsReturned(c) /\ bodyRead[c] # <<>>
\* the complete extraction result of the page the call read
OwnExtraction(c) == catalogOf(bodyRead[c][1], czechRegions, <<>>)
\* a call returns the cached sequence, which is the extraction of one other call, or
\* its own complete extraction
CachedOrOwn(c) ==
    IF bodyRead[c] # <<>>
    THEN result[c].value = OwnExtraction(c)
    ELSE seen[c] = "fresh" /\ \E d \in Calls \ {c} : RegionsExtracted(d) /\ result[c].value = OwnExtraction(d)
\* a non-empty slot holds the complete extraction of one call that fetched successfully
SlotIsOneExtraction ==
    regionsCache # <<>> =>
        /\ Len(regionsCache) = 1
        /\ \E d \in Calls : RegionsExtracted(d) /\ HasStatus2xx(d) /\ regionsCache[1].data = OwnExtraction(d)
\* the call that finishes its extraction writes its own result over whatever the slot
\* held, and the slot gets a value in no other step
LastFinisherWrites ==
    /\ \A c \in Calls :
           (op[c] = "regions" /\ pc[c] = "text" /\ pc'[c] = "done" /\ result'[c].ok)
               => regionsCache' = <<[data |-> catalogOf(bodyRead'[c][1], czechRegions, <<>>), timestamp |-> now]>>
    /\ (regionsCache' # regionsCache /\ regionsCache' # <<>>)
           => \E c \in Calls : op[c] = "regions" /\ pc[c] = "text" /\ pc'[c] = "done" /\ result'[c].ok

\* C27: under any interleaving of concurrent listRegions calls, each suspended at its
\* fetch, every call returns the cached sequence or the complete sequence it
\* extracted itself, and a non-empty cache slot holds the complete extraction result
\* of exactly one successful fetch, written by the call that finished last, never a
\* mixture of two.
C27_NoMixedCatalog ==
    /\ [](\A c \in Calls : RegionsReturned(c) => CachedOrOwn(c))
    /\ []SlotIsOneExtraction
    /\ [][LastFinisherWrites]_vars

\* C27 witness: two listRegions calls both missed the empty cache and fetched; they
\* read different pages, the first call finished after the second, and the slot holds
\* the first call's sequence
C27_Witness ==
    /\ RegionsExtracted(1) /\ RegionsExtracted(2)
    /\ seen[1] = "empty" /\ seen[2] = "empty"
    /\ result[1].value # result[2].value
    /\ regionsCache # <<>> /\ regionsCache[1].data = result[1].value /\ regionsCache[1].timestamp > issued[2]

\* the cache slot of the catalog that the call is for, before and after the step
SlotOf(o) == IF o = "regions" THEN regionsCache ELSE featuresCache
SlotOfNext(o) == IF o = "regions" THEN regionsCache' ELSE featuresCache'
\* the slot holds an entry with the empty sequence that is within its TTL
EmptyCached(o) == SlotOf(o) # <<>> /\ SlotOf(o)[1].data = <<>> /\ now - SlotOf(o)[1].timestamp <= CACHE_TTL_MS
\* the step in which the call finishes an extraction that yields the empty sequence
FinishesEmpty(c) == pc[c] = "text" /\ pc'[c] = "done" /\ result'[c].ok /\ result'[c].value = <<>>
\* the step in which the call is made
IsCalled(c) == pc[c] = "idle" /\ pc'[c] # "idle"

\* C28: an extraction that yields the empty sequence is cached like any other: the
\* call that fetched a page without qualifying anchors stores the empty sequence, and
\* every further listRegions (listFeatures) call made within the TTL of that entry
\* returns the empty sequence without a fetch.
C28_EmptyCatalogCached ==
    [][\A c \in Calls :
          /\ (IsCatalogCall(c) /\ FinishesEmpty(c))
                 => SlotOfNext(op[c]) = <<[data |-> <<>>, timestamp |-> now]>>
          /\ (IsCalled(c) /\ op'[c] \in {"regions", "features"} /\ EmptyCached(op'[c]))
                 => /\ pc'[c] = "done" /\ result'[c].ok /\ result'[c].value = <<>>
                    /\ trace'[c] = <<>> /\ fetched' = fetched
                    /\ SlotOfNext(op'[c]) = SlotOf(op'[c])]_vars

\* C28 witness: a listRegions call read a page without anchors and returned the empty
\* sequence; a later call, one TTL after it, returned the empty sequence from the
\* cache without any fetch attempt
C28_Witness ==
    \E c, d \in Calls :
        /\ RegionsExtracted(d) /\ bodyRead[d][1] = <<>> /\ result[d].value = <<>>
        /\ RegionsReturned(c) /\ issued[c] = issued[d] + CACHE_TTL_MS
        /\ seen[c] = "fresh" /\ result[c].value = <<>> /\ trace[c] = <<>> /\ bodyRead[c] = <<>>

\* the call handed its URL to fetchWithRetry
Requested(c) == op[c] = "search" /\ pc[c] = "fetch" /\ target[c] \in fetched
\* the path of a requested URL: what follows the origin, up to the "?"
PathOf(url) ==
    LET rest == SubSeq(url, Len(BASE_URL) + 1, Len(url))
        mark == IndexOfAny(rest, {"?"})
    IN IF mark = 0 THEN rest ELSE SubSeq(rest, 1, mark - 1)
\* its query string: what follows the "?" (<<>> when there is none)
QueryStringOf(url) ==
    LET mark == IndexOfAny(url, {"?"})
    IN IF mark = 0 THEN <<>> ELSE SubSeq(url, mark + 1, Len(url))
RegionGiven(p) == p.region # <<>> /\ p.region[1] # <<>>
FeatureGiven(p) == p.features # <<>> /\ p.features[1] # <<>>
\* the two parameter records differ at most in the features after the first
SameButLaterFeatures(p, q) ==
    /\ FeatureGiven(p) /\ FeatureGiven(q) /\ p.features[1][1] = q.features[1][1]
    /\ q = [p EXCEPT !.features = q.features]

RECURSIVE SplitAt(_, _)
\* the pieces of s between the occurrences of the character sep
SplitAt(s, sep) ==
    LET mark == IndexOfAny(s, {sep})
    IN IF mark = 0 THEN <<s>> ELSE <<SubSeq(s, 1, mark - 1)>> \o SplitAt(SubSeq(s, mark + 1, Len(s)), sep)
\* the key=value pairs of a requested URL, in their order
PairsOf(url) == IF QueryStringOf(url) = <<>> THEN <<>> ELSE SplitAt(QueryStringOf(url), "&")
IsZero(f) == f # <<>> /\ f[1] = Fin(0)
NonZero(f) == f # <<>> /\ f[1].k = "fin" /\ f[1].h > 0
\* the pair of a number field (values drawn are whole numbers and halves, printed
\* without any escape) and of a date field
NumberPair(key, f) == IF NonZero(f) THEN <<key \o <<"=">> \o NumberToString(f[1])>> ELSE <<>>
DatePair(key, f) == IF f # <<>> /\ f[1] # <<>> THEN <<key \o <<"=">> \o f[1]>> ELSE <<>>
\* p with every persons, priceMin and priceMax of 0 left out
ZerosOmitted(p) ==
    [p EXCEPT !.persons = IF IsZero(p.persons) THEN <<>> ELSE @,
              !.priceMin = IF IsZero(p.priceMin) THEN <<>> ELSE @,
              !.priceMax = IF IsZero(p.priceMax) THEN <<>> ELSE @]

\* C30: in searchChalupy a persons, priceMin or priceMax of 0 passes validation but
\* adds no parameter to the query string, so the requested URL equals the one built
\* when the field is omitted; every non-zero validated value appears exactly once, in
\* the fixed order osoby, od, do, cenaMin, cenaMax.
C30_ZeroAddsNoParameter ==
    /\ \A c \in Calls :
           (op[c] = "search" /\ pc[c] # "idle" /\ args[c].params \in QueryStringParams) => ~RejectedParameter(c)
    /\ \A c \in Calls :
           Requested(c) =>
               LET p == args[c].params
               IN PairsOf(target[c]) =
                      NumberPair(<<"o","s","o","b","y">>, p.persons)
                      \o DatePair(<<"o","d">>, p.dateFrom)
                      \o DatePair(<<"d","o">>, p.dateTo)
                      \o NumberPair(<<"c","e","n","a","M","i","n">>, p.priceMin)
                      \o NumberPair(<<"c","e","n","a","M","a","x">>, p.priceMax)
    /\ \A c, d \in Calls :
           (Requested(c) /\ Requested(d) /\ args[d].params = ZerosOmitted(args[c].params))
               => target[c] = target[d]

\* C30 witness: a call with persons, priceMin and priceMax of 0 and a call without
\* them requested the same URL, whose query string has the two dates only
C30_Witness ==
    \E c, d \in Calls :
        /\ Requested(c) /\ Requested(d)
        /\ IsZero(args[c].params.persons) /\ IsZero(args[c].params.priceMin) /\ IsZero(args[c].params.priceMax)
        /\ args[d].params = ZerosOmitted(args[c].params)
        /\ target[c] = target[d]
        /\ PairsOf(target[c]) = << <<"o","d","=">> \o DateJuly, <<"d","o","=">> \o DateLeapDay >>

====
